---------------------------- MODULE Spec2Model ----------------------------
(***************************************************************************)
(* A state-machine model of tg_birelay: the manager bot that registers and *)
(* removes relay identities (sub bots), the per-identity message handlers  *)
(* (subbot_start, handle_client), the verification gate, the direct and    *)
(* topic relay strategies, and the sqlite-backed registry store.           *)
(*                                                                         *)
(* Scheduling.  Every telegram.ext.Application is built with the default   *)
(* concurrent_updates=False, so the handlers of one application run one    *)
(* after the other; handlers of different applications interleave at their *)
(* awaits.  State changes of a handler that happen between two awaits are  *)
(* one step of the model.                                                  *)
(***************************************************************************)
EXTENDS Integers, Sequences, FiniteSets, TLC

\* ------------------------------------------------------------ universe
\* Bounds of the model (not program constants): how many messages the transport
\* forwards into the owner's chat, and how many topics it creates in a group, in
\* the behaviours of each specification.
MaxMsgId == 2       \* SpecDirect
MaxTopicId == 2     \* SpecForum
GateRelays == 1     \* SpecGate
LifeRelays == 1
TwoRelays == 1     \* Spec

None == "None"     \* an absent name (Optional[str])
NoId == 0           \* an absent id (Optional[int]); real ids are never 0

Bots == {"b1"}
Owners == {9}
\* Every identity and every owner of the model (the registry specification has
\* two of each).
AllBots == {"b1", "b2"}
AllOwners == {8, 9}
Users == {1, 2}
People == Users \cup Owners
Groups == {-1}
\* Every group of the model (the rebinding specification has two, each numbering
\* its topics on its own).
AllGroups == {-1, -2}

\* The usernames Bot(token).get_me() can report for a credential: none for a
\* credential the transport rejects, two for a bot whose username is changed
\* (at the transport, outside the program) while the program runs.
GetMeAny(token) == {"b1"}
GetMe(token) ==
    CASE token = <<"t", "1">> -> {"b1"}
      [] token = <<"t", "2">> -> {"b2"}
      [] token = <<"t", "3">> -> {"b1", "b2"}
      [] OTHER -> {}

\* Message texts are sequences of characters; NoText is a message without text.
NoText == <<>>
Answers == { <<"7">>, <<"8">> }
ClientTexts == Answers \cup { <<" ", "7", " ">>, NoText }

VARIABLES
    owners,             \* table owners: the set of owner_id with a row
    bots,               \* table bots: bot_username -> row
    direct_routes,      \* table direct_routes: <<bot_username, forward_id>> -> user_id
    forum_topics,       \* table forum_topics: rows <<bot_username, user_id, topic_id>>
    blacklist,          \* table blacklist: set of <<bot_username, user_id>>
    verified_users,     \* table verified_users: set of <<bot_username, user_id>>
    pending_challenges, \* dict: challenge_key -> Challenge
    running_apps,       \* dict keys: bot_username with an Application in the running set
    apps,               \* the Application objects: bot_username -> [owner_id, state]
    user_data,          \* manager context.user_data: owner -> set of pending prompts
    mgr,                \* the manager session: its phase and the handler it is suspended in
    nextMsgId,          \* transport: next message id in the owner's chat with each bot
    nextTopic,          \* transport: next message_thread_id of each group
    liveTopics,         \* transport: the topics that exist, <<group, topic_id>>
    last                \* observation: what the last handler did

vars == << owners, bots, direct_routes, forum_topics, blacklist, verified_users,
           pending_challenges, running_apps, apps, user_data, mgr,
           nextMsgId, nextTopic, liveTopics, last >>

store == << owners, bots, direct_routes, forum_topics, blacklist, verified_users >>
transport == << nextMsgId, nextTopic, liveTopics >>

\* ------------------------------------------------------------ helpers
\* Python truthiness of an Optional[int].
Truthy(x) == x # NoId

Without(f, k) == [x \in DOMAIN f \ {k} |-> f[x]]
With(f, k, v) == (k :> v) @@ f

\* str.strip(): leading and trailing whitespace removed.
RECURSIVE LStrip(_)
LStrip(s) == IF s # <<>> /\ Head(s) = " " THEN LStrip(Tail(s)) ELSE s
RECURSIVE RStrip(_)
RStrip(s) == IF s # <<>> /\ s[Len(s)] = " " THEN RStrip(SubSeq(s, 1, Len(s) - 1)) ELSE s
Strip(s) == RStrip(LStrip(s))

\* str.startswith(prefix)
StartsWith(s, p) == Len(s) >= Len(p) /\ SubSeq(s, 1, Len(p)) = p

\* ------------------------------------------------------------ database.py
\* get_bot's result for a username without a row.
NoRow == [owner_id |-> NoId, token |-> <<>>, mode |-> "none",
          forum_group_id |-> NoId, captcha_enabled |-> FALSE]

get_bot(b) == IF b \in DOMAIN bots THEN bots[b] ELSE NoRow

get_forward_target_none(b, fid) == NoId
get_forward_target(b, fid) ==
    IF <<b, fid>> \in DOMAIN direct_routes THEN direct_routes[<<b, fid>>] ELSE NoId

\* INSERT OR REPLACE on the primary key (bot_username, forward_id).
record_forward_swapped(routes, b, fid, u) == With(routes, <<b, fid>>, fid)
record_forward(routes, b, fid, u) == With(routes, <<b, fid>>, u)

\* pop_forward_target: the row's user_id (or None), and the table without the row.
pop_forward_target_kept(routes, b, fid) == routes
pop_forward_target(routes, b, fid) == Without(routes, <<b, fid>>)

\* The rows of table forum_topics with primary key (bot_username, user_id).
topic_rows(topics, b, u) == { r \in topics : r[1] = b /\ r[2] = u }

\* SELECT topic_id ... WHERE bot_username=? AND user_id=?  (fetchone)
get_topic(topics, b, u) ==
    IF topic_rows(topics, b, u) = {} THEN NoId
    ELSE (CHOOSE r \in topic_rows(topics, b, u) : TRUE)[3]

\* INSERT ... ON CONFLICT(bot_username, user_id) DO UPDATE SET topic_id
upsert_topic_insert(topics, b, u, tid) == topics \cup { <<b, u, tid>> }
upsert_topic(topics, b, u, tid) == (topics \ topic_rows(topics, b, u)) \cup { <<b, u, tid>> }

\* SELECT user_id FROM forum_topics WHERE bot_username=? AND topic_id=?  (fetchone:
\* any one of the matching rows)
users_by_topic(b, tid) ==
    { r[2] : r \in { x \in forum_topics : x[1] = b /\ x[3] = tid } }

is_blacklisted(b, u) == <<b, u>> \in blacklist

\* add_blacklist: False for a pair that is_blacklisted finds, else a plain INSERT
\* (which raises sqlite3.IntegrityError on the primary key) and True.
add_blacklist_insert(rows, b, u) ==
    [raised |-> <<b, u>> \in rows, result |-> TRUE, rows |-> rows \cup { <<b, u>> }]
add_blacklist(rows, b, u) ==
    IF <<b, u>> \in rows
    THEN [raised |-> FALSE, result |-> FALSE, rows |-> rows]
    ELSE [raised |-> FALSE, result |-> TRUE, rows |-> rows \cup { <<b, u>> }]

\* remove_blacklist: DELETE, then rowcount > 0
remove_blacklist(rows, b, u) ==
    [result |-> <<b, u>> \in rows, rows |-> rows \ { <<b, u>> }]

is_verified_never(b, u) == FALSE
is_verified(b, u) == <<b, u>> \in verified_users

\* INSERT ... ON CONFLICT DO NOTHING
verify_user_dropped(vs, b, u) == vs
verify_user(vs, b, u) == vs \cup { <<b, u>> }

\* unverify_user: DELETE, then rowcount > 0
unverify_user_kept(vs, b, u) == [result |-> <<b, u>> \in vs, rows |-> vs]
unverify_user(vs, b, u) == [result |-> <<b, u>> \in vs, rows |-> vs \ { <<b, u>> }]

\* remove_bot: the identity's row and every per-identity row of the four tables.
remove_bot_rows(rows, b) == Without(rows, b)
remove_bot_keyed(f, b) == [k \in { x \in DOMAIN f : x[1] # b } |-> f[k]]
remove_bot_pairs_kept(rows, b) == rows
remove_bot_pairs(rows, b) == { x \in rows : x[1] # b }

\* ------------------------------------------------------------ app.py helpers
captcha_enabled_always(row) == TRUE
captcha_enabled(row) == row.captcha_enabled

challenge_key_shared(b, u) == <<"b1", u>>
challenge_key(b, u) == <<b, u>>


\* A Challenge (captcha.py): only its expected answer decides anything here.
Challenges == { [answer |-> a] : a \in Answers }

\* What a handler did, as its peers can observe it:
\*   op      the handler (and the kind of message it got)
\*   outcome the branch it took
\*   notice  the text it sent back to the sender ("none" when it sent nothing)
\*   fid     the message id of the copy forwarded to the owner's chat (direct relay)
\*   tid     the topic the message was forwarded into (topic relay)
\*   made    the number of topics the handler created
\*   to      the end-user a copy of the owner's message was addressed to
\*   sent    whether that copy was delivered
\*   text    the text of the end-user's message
Obs(op, b, u, outcome, notice) ==
    [op |-> op, bot |-> b, user |-> u, outcome |-> outcome, notice |-> notice,
     fid |-> NoId, tid |-> NoId, made |-> 0, calls |-> 0, to |-> NoId, sent |-> FALSE,
     text |-> NoText]

ClientObs(b, u, text, outcome, notice) ==
    [Obs("client", b, u, outcome, notice) EXCEPT !.text = text]

\* An application delivers updates to its handlers while its updater polls, and,
\* after updater.stop(), until Application.stop() has drained the update queue.
Listening(b) == b \in DOMAIN apps /\ apps[b].state \in {"polling", "draining"}

\* ------------------------------------------------------------ verification gate
\* ensure_verified: pass is its return value; pending and verified are
\* pending_challenges and verified_users as it leaves them.  fresh is the challenge
\* build_challenge draws, drew whether it was called.
ensure_verified_regen(b, u, text, bot_row, fresh) ==
    [pass |-> FALSE, outcome |-> "challenge_issued", notice |-> "challenge", drew |-> TRUE,
     pending |-> With(pending_challenges, challenge_key(b, u), fresh),
     verified |-> verified_users]
ensure_verified_unpopped(b, u, text, bot_row, fresh) ==
    [pass |-> FALSE, outcome |-> "verified_now", notice |-> "welcome", drew |-> FALSE,
     pending |-> pending_challenges,
     verified |-> verify_user(verified_users, b, u)]
ensure_verified_open(b, u, text, bot_row, fresh) ==
    [pass |-> TRUE, outcome |-> "gate_off", notice |-> "none", drew |-> FALSE,
     pending |-> pending_challenges, verified |-> verified_users]
ensure_verified(b, u, text, bot_row, fresh) ==
    LET key == challenge_key(b, u)
        same(pass, outcome, notice) ==
            [pass |-> pass, outcome |-> outcome, notice |-> notice, drew |-> FALSE,
             pending |-> pending_challenges, verified |-> verified_users]
    IN  IF ~captcha_enabled(bot_row) THEN same(TRUE, "gate_off", "none")
        ELSE IF is_verified(b, u) THEN same(TRUE, "gate_verified", "none")
        ELSE IF key \in DOMAIN pending_challenges
        THEN IF text # NoText /\ Strip(text) = pending_challenges[key].answer
             THEN [pass |-> FALSE, outcome |-> "verified_now", notice |-> "welcome",
                   drew |-> FALSE,
                   pending |-> Without(pending_challenges, key),
                   verified |-> verify_user(verified_users, b, u)]
             ELSE same(FALSE, "retry", "retry")
        ELSE [pass |-> FALSE, outcome |-> "challenge_issued", notice |-> "challenge",
              drew |-> TRUE,
              pending |-> With(pending_challenges, key, fresh),
              verified |-> verified_users]

\* subbot_start: the /start command, from anyone who can write to the bot.  pool
\* holds the challenges build_challenge can draw.
SubbotStart(b, u, pool) ==
    /\ Listening(b)
    /\ LET row == get_bot(b)
           key == challenge_key(b, u)
       IN  IF row = NoRow
           THEN /\ last' = Obs("start", b, u, "config_invalid", "config_invalid")
                /\ UNCHANGED pending_challenges
           ELSE IF ~captcha_enabled(row) \/ is_verified(b, u)
           THEN /\ last' = Obs("start", b, u, "welcome", "welcome")
                /\ UNCHANGED pending_challenges
           ELSE \E fresh \in pool :
                /\ pending_challenges' = With(pending_challenges, key, fresh)
                /\ last' = Obs("start", b, u, "challenge_issued", "challenge")
    /\ UNCHANGED << store, running_apps, apps, user_data, mgr, transport >>

\* ------------------------------------------------------------ relay strategies
\* Transport calls fail at the environment's choice: failAt is the number of the
\* handler's transport call (in the order it makes them) that raises an error
\* other than a stale reference; 0 when none does.  calls counts the calls made.

\* relay_direct: forward to the owner's chat, then record the forwarded id.
relay_direct(b, u, failAt) ==
    IF failAt = 1
    THEN [outcome |-> "error", notice |-> "none", routes |-> direct_routes,
          nextId |-> nextMsgId, fid |-> NoId, calls |-> 1]
    ELSE [outcome |-> "relayed_direct", notice |-> "ack",
          routes |-> record_forward(direct_routes, b, nextMsgId[b], u),
          nextId |-> [nextMsgId EXCEPT ![b] = @ + 1],
          fid |-> nextMsgId[b], calls |-> 1]

\* relay_forum: resolve or create the user's topic in the bound group, forward
\* into it, and on a stale topic create a new one, overwrite the binding and
\* forward once more.
relay_forum_recreate(b, u, row, failAt) ==
    LET forum_id == row["forum_group_id"]
        tid == nextTopic[forum_id]
    IN  [outcome |-> "relayed_forum", notice |-> "ack",
         topics |-> upsert_topic(forum_topics, b, u, tid),
         next |-> [nextTopic EXCEPT ![forum_id] = @ + 1],
         live |-> liveTopics \cup { <<forum_id, tid>> },
         tid |-> tid, made |-> 1, calls |-> 2]
relay_forum(b, u, row, failAt) ==
    LET forum_id == row["forum_group_id"]
        t0 == get_topic(forum_topics, b, u)
        st0 == [outcome |-> "error", notice |-> "none", topics |-> forum_topics,
                next |-> nextTopic, live |-> liveTopics, tid |-> NoId, made |-> 0,
                calls |-> 0]
        \* a transport call that raises (or, for a forward, finds a stale topic)
        call(st) == [st EXCEPT !.calls = @ + 1]
        fails(st) == failAt = st.calls + 1 \/ forum_id \notin AllGroups
        \* create_forum_topic + upsert_topic
        created(st) ==
            LET tid == st.next[forum_id]
            IN  [st EXCEPT !.topics = upsert_topic(st.topics, b, u, tid),
                           !.next = [st.next EXCEPT ![forum_id] = @ + 1],
                           !.live = st.live \cup { <<forum_id, tid>> },
                           !.made = @ + 1,
                           !.calls = @ + 1]
        \* _do_forward succeeded
        done(st) == [st EXCEPT !.outcome = "relayed_forum", !.notice = "ack",
                               !.tid = get_topic(st.topics, b, u), !.calls = @ + 1]
    IN  IF ~Truthy(forum_id)
        THEN [st0 EXCEPT !.outcome = "not_configured", !.notice = "not_configured"]
        ELSE IF ~Truthy(t0) /\ fails(st0) THEN call(st0)
        ELSE LET st1 == IF ~Truthy(t0) THEN created(st0) ELSE st0
             IN  IF fails(st1) THEN call(st1)
                 ELSE IF <<forum_id, get_topic(st1.topics, b, u)>> \in st1.live THEN done(st1)
                 ELSE \* "message thread not found": recover once
                      IF fails(call(st1)) THEN call(call(st1))
                      ELSE LET st2 == created(call(st1))
                           IN  IF fails(st2) THEN call(st2) ELSE done(st2)

\* handle_client, for a message an end-user sends in their private chat with
\* the bot (chat.id != owner_id): blacklist, gate, then the relay of the row's mode.
\* pool holds the challenges build_challenge can draw.
ClientMessage(b, u, text, pool, failAt) ==
    /\ Listening(b)
    /\ u # apps[b].owner_id
    /\ LET row == get_bot(b)
           quiet(outcome, notice) ==
               /\ failAt = 0
               /\ last' = ClientObs(b, u, text, outcome, notice)
               /\ UNCHANGED << direct_routes, forum_topics, verified_users,
                               pending_challenges, transport >>
       IN  IF row = NoRow THEN quiet("config_invalid", "config_invalid")
           ELSE IF is_blacklisted(b, u) THEN quiet("blacklisted", "blocked")
           ELSE \E fresh \in pool :
                LET g == ensure_verified(b, u, text, row, fresh)
                IN  /\ g.drew \/ fresh = CHOOSE c \in pool : TRUE
                    /\ IF ~g.pass
                       THEN /\ failAt = 0
                            /\ pending_challenges' = g.pending
                            /\ verified_users' = g.verified
                            /\ last' = ClientObs(b, u, text, g.outcome, g.notice)
                            /\ UNCHANGED << direct_routes, forum_topics, transport >>
                       ELSE IF row["mode"] = "direct"
                       THEN LET r == relay_direct(b, u, failAt)
                            IN  /\ failAt <= r.calls
                                /\ direct_routes' = r.routes
                                /\ nextMsgId' = r.nextId
                                /\ last' = [ClientObs(b, u, text, r.outcome, r.notice)
                                               EXCEPT !.fid = r.fid, !.calls = r.calls]
                                /\ UNCHANGED << forum_topics, verified_users,
                                                pending_challenges, nextTopic, liveTopics >>
                       ELSE LET r == relay_forum(b, u, row, failAt)
                            IN  /\ failAt <= r.calls
                                /\ forum_topics' = r.topics
                                /\ nextTopic' = r.next
                                /\ liveTopics' = r.live
                                /\ last' = [ClientObs(b, u, text, r.outcome, r.notice)
                                               EXCEPT !.tid = r.tid, !.made = r.made,
                                                      !.calls = r.calls]
                                /\ UNCHANGED << direct_routes, verified_users,
                                                pending_challenges, nextMsgId >>
    /\ UNCHANGED << owners, bots, blacklist, running_apps, apps, user_data, mgr >>

\* ------------------------------------------------------------ owner side
Digits == {"0", "1", "2", "3", "4", "5", "6", "7", "8", "9"}

DigitVal(c) ==
    CASE c = "0" -> 0 [] c = "1" -> 1 [] c = "2" -> 2 [] c = "3" -> 3 [] c = "4" -> 4
      [] c = "5" -> 5 [] c = "6" -> 6 [] c = "7" -> 7 [] c = "8" -> 8 [] c = "9" -> 9

\* str.split(): the maximal runs of non-blank characters.
RECURSIVE Split(_)
Split(s) ==
    LET t == LStrip(s)
        n == IF \E i \in 1..Len(t) : t[i] = " "
             THEN (CHOOSE i \in 1..Len(t) : t[i] = " " /\ \A j \in 1..(i - 1) : t[j] # " ") - 1
             ELSE Len(t)
    IN  IF t = <<>> THEN <<>>
        ELSE <<SubSeq(t, 1, n)>> \o Split(SubSeq(t, n + 1, Len(t)))

\* str.lstrip("-")
RECURSIVE LStripDash(_)
LStripDash(w) == IF w # <<>> /\ Head(w) = "-" THEN LStripDash(Tail(w)) ELSE w

\* str.isdigit()
IsDigit(w) == w # <<>> /\ \A i \in 1..Len(w) : w[i] \in Digits

RECURSIVE NatOf(_)
NatOf(w) == IF w = <<>> THEN 0 ELSE 10 * NatOf(SubSeq(w, 1, Len(w) - 1)) + DigitVal(w[Len(w)])

\* int(text): an optional sign and digits; raised is ValueError.
ParseInt(text) ==
    LET w == Strip(text)
        int(v) == [raised |-> FALSE, value |-> v]
    IN  IF IsDigit(w) THEN int(NatOf(w))
        ELSE IF w # <<>> /\ Head(w) = "-" /\ IsDigit(Tail(w)) THEN int(0 - NatOf(Tail(w)))
        ELSE IF w # <<>> /\ Head(w) = "+" /\ IsDigit(Tail(w)) THEN int(NatOf(Tail(w)))
        ELSE [raised |-> TRUE, value |-> NoId]

\* SELECT ... fetchone() on forum_topics by topic: NoId, or one matching user.
\* pick chooses among several rows bound to the same topic.
user_by_topic_none(b, tid, pick) == NoId
user_by_topic(b, tid, pick) ==
    IF users_by_topic(b, tid) = {} THEN NoId
    ELSE IF pick \in users_by_topic(b, tid) THEN pick
    ELSE CHOOSE x \in users_by_topic(b, tid) : TRUE

\* A replied-to message, as the handlers read it.
Reply(mid, fwd, thread, from) ==
    [message_id |-> mid, forward_from |-> fwd, message_thread_id |-> thread, from_user |-> from]
NoReply == Reply(NoId, NoId, NoId, NoId)

\* resolve_target_id: an explicit numeric argument, else the replied-to message,
\* else the enclosing topic's user; NoId when nothing resolves; raised when int()
\* raises ValueError.
resolve_target_id(b, sender, text, reply, thread, bot_row, thread_target, pick) ==
    LET parts == Split(text)
        id(v) == [raised |-> FALSE, value |-> v]
    IN  IF Len(parts) = 2 /\ IsDigit(LStripDash(parts[2])) THEN ParseInt(parts[2])
        ELSE IF reply # NoReply /\ bot_row["mode"] = "direct"
        THEN id(get_forward_target(b, reply.message_id))
        ELSE IF reply # NoReply /\ bot_row["mode"] = "forum" /\ Truthy(reply.forward_from)
        THEN id(reply.forward_from)
        ELSE IF /\ reply # NoReply /\ bot_row["mode"] = "forum"
                /\ Truthy(reply.message_thread_id)
                /\ Truthy(user_by_topic(b, reply.message_thread_id, pick))
        THEN id(user_by_topic(b, reply.message_thread_id, pick))
        ELSE IF /\ reply # NoReply /\ bot_row["mode"] = "forum"
                /\ Truthy(reply.from_user) /\ reply.from_user # sender
        THEN id(reply.from_user)
        ELSE IF Truthy(thread_target) THEN id(thread_target)
        ELSE IF /\ bot_row["mode"] = "forum" /\ Truthy(thread)
                /\ Truthy(user_by_topic(b, thread, pick))
        THEN id(user_by_topic(b, thread, pick))
        ELSE id(NoId)

\* handle_owner_command: what the command does to the blacklist and the verified
\* set, and what it answers.  resolved is resolve_target_id's result.
handle_owner_command(b, text, resolved) ==
    LET t == Strip(text)
        target == resolved.value
        same(outcome, notice) ==
            [outcome |-> outcome, notice |-> notice,
             blacklist |-> blacklist, verified |-> verified_users, to |-> NoId]
        needs == StartsWith(t, <<"/", "b">>) \/ StartsWith(t, <<"/", "u", "b">>)
                 \/ StartsWith(t, <<"/", "u", "v">>) \/ StartsWith(t, <<"/", "i", "d">>)
    IN  IF StartsWith(t, <<"/", "b", "l">>) THEN same("listed", "blacklist")
        ELSE IF ~needs THEN same("ignored", "none")
        ELSE IF resolved.raised THEN same("error", "none")
        ELSE IF ~Truthy(target) THEN same("no_target", "need_target")
        ELSE IF StartsWith(t, <<"/", "b">>)
        THEN LET a == add_blacklist(blacklist, b, target)
             IN  IF a.raised THEN [same("error", "none") EXCEPT !.to = target]
                 ELSE IF a.result
                 THEN [same("blocked", "blocked_ok") EXCEPT
                          !.blacklist = a.rows, !.to = target]
                 ELSE [same("already_blocked", "already_blocked") EXCEPT !.to = target]
        ELSE IF StartsWith(t, <<"/", "u", "b">>)
        THEN LET d == remove_blacklist(blacklist, b, target)
             IN  IF d.result
                 THEN [same("unblocked", "unblocked_ok") EXCEPT
                          !.blacklist = d.rows, !.to = target]
                 ELSE [same("not_blocked", "not_found") EXCEPT
                          !.blacklist = d.rows, !.to = target]
        ELSE IF StartsWith(t, <<"/", "u", "v">>)
        THEN LET d == unverify_user(verified_users, b, target)
             IN  IF d.result
                 THEN [same("unverified", "unverified_ok") EXCEPT
                          !.verified = d.rows, !.to = target]
                 ELSE [same("not_verified", "not_verified") EXCEPT
                          !.verified = d.rows, !.to = target]
        ELSE [same("card", "card") EXCEPT !.to = target]

\* handle_client, for a command ("/...") the owner sends in their private chat with
\* the bot (chat = the owner's id) or, in topic mode, in the bound group.
OwnerCommand(b, chat, text, reply, thread, pick) ==
    /\ Listening(b)
    /\ StartsWith(text, <<"/">>)
    /\ LET row == get_bot(b)
           owner_id == apps[b].owner_id
       IN  IF row = NoRow
           THEN /\ last' = Obs("owner_cmd", b, owner_id, "config_invalid", "config_invalid")
                /\ UNCHANGED << blacklist, verified_users >>
           ELSE /\ \/ chat = owner_id      \* ChatType.PRIVATE and chat.id == owner_id
                   \/ row["mode"] = "forum" /\ chat = row["forum_group_id"]
                /\ LET forum_group_id == row["forum_group_id"]
                       topic_id == IF thread = NoId /\ reply # NoReply
                                   THEN reply.message_thread_id ELSE thread
                       forum_thread_target ==
                           IF /\ row["mode"] = "forum" /\ Truthy(forum_group_id)
                              /\ chat = forum_group_id /\ Truthy(topic_id)
                           THEN user_by_topic(b, topic_id, pick) ELSE NoId
                       target == resolve_target_id(b, owner_id, text, reply, thread, row,
                                                   forum_thread_target, pick)
                       r == handle_owner_command(b, text, target)
                   IN  /\ blacklist' = r.blacklist
                       /\ verified_users' = r.verified
                       /\ last' = [Obs("owner_cmd", b, owner_id, r.outcome, r.notice)
                                      EXCEPT !.to = r.to, !.text = text,
                                             !.fid = reply.message_id, !.tid = thread]
    /\ UNCHANGED << owners, bots, direct_routes, forum_topics, pending_challenges,
                    running_apps, apps, user_data, mgr, transport >>

\* handle_client, for a message that is no command which the owner sends in their
\* private chat with the bot: pop the route of the replied-to message and copy the
\* owner's message to that user.
OwnerPrivate(b, replyId, copyOk) ==
    /\ Listening(b)
    /\ LET row == get_bot(b)
           owner_id == apps[b].owner_id
           target == IF replyId # NoId THEN get_forward_target(b, replyId) ELSE NoId
       IN  IF row = NoRow
           THEN /\ last' = Obs("owner_reply", b, owner_id, "config_invalid", "config_invalid")
                /\ UNCHANGED direct_routes
           ELSE /\ direct_routes' = IF replyId # NoId
                                    THEN pop_forward_target(direct_routes, b, replyId)
                                    ELSE direct_routes
                /\ last' = IF Truthy(target)
                           THEN [Obs("owner_reply", b, owner_id,
                                     IF copyOk THEN "replied" ELSE "error",
                                     IF copyOk THEN "replied" ELSE "none")
                                    EXCEPT !.fid = replyId, !.to = target, !.sent = copyOk]
                           ELSE [Obs("owner_reply", b, owner_id, "unresolved", "none")
                                    EXCEPT !.fid = replyId]
    /\ UNCHANGED << owners, bots, forum_topics, blacklist, verified_users,
                    pending_challenges, running_apps, apps, user_data, mgr, transport >>

\* handle_client, for a message inside a topic of a group (from any member; a
\* command of the owner in the bound group of a topic-mode bot is OwnerCommand).
TopicMessage(b, sender, chat, thread, pick, copyOk) ==
    /\ Listening(b)
    /\ LET row == get_bot(b)
       IN  IF row = NoRow
           THEN last' = Obs("topic_msg", b, sender, "config_invalid", "config_invalid")
           ELSE IF row["mode"] = "forum" /\ chat = row["forum_group_id"]
           THEN LET target_uid == user_by_topic(b, thread, pick)
                IN  last' = IF Truthy(target_uid)
                            THEN [Obs("topic_msg", b, sender,
                                      IF copyOk THEN "copied" ELSE "error", "none")
                                     EXCEPT !.tid = thread, !.to = target_uid, !.sent = copyOk]
                            ELSE [Obs("topic_msg", b, sender, "unresolved", "none")
                                     EXCEPT !.tid = thread]
           ELSE last' = Obs("topic_msg", b, sender, "ignored", "none")
    /\ UNCHANGED << store, pending_challenges, running_apps, apps, user_data, mgr, transport >>

\* ------------------------------------------------------------ manager session
\* The manager application runs one handler at a time: pc is "idle" between
\* handlers, and names the await a handler is suspended in otherwise.
\*   boot    main() is in spin_existing_bots, todo the rows still to start
\*   ensure  a handler (or main) is inside ensure_sub_bot's awaits for bot
\*   drop    the drop handler is inside shutdown_sub_bot's awaits for bot
\*   dead    main() raised and the process has exited
Mgr(pc, b, o, todo) == [pc |-> pc, bot |-> b, owner |-> o, todo |-> todo]
MgrIdle == Mgr("idle", None, NoId, <<>>)

NoPrompts == [await_token |-> FALSE, await_forum |-> None]

\* A freshly registered row (register_bot and the column defaults of _setup).
NewBot(owner_id, token) ==
    [owner_id |-> owner_id, token |-> token, mode |-> "direct",
     forum_group_id |-> NoId, captcha_enabled |-> TRUE]

\* upsert_owner: INSERT ... ON CONFLICT(owner_id) DO UPDATE
upsert_owner(rows, owner_id) == rows \cup {owner_id}

\* register_bot: a plain INSERT; token and bot_username are UNIQUE, and the
\* insert raises sqlite3.IntegrityError when either is taken.
register_bot_unchecked(rows, owner_id, token, b) ==
    [raised |-> FALSE, rows |-> With(rows, b, NewBot(owner_id, token))]
register_bot(rows, owner_id, token, b) ==
    IF b \in DOMAIN rows \/ \E x \in DOMAIN rows : rows[x].token = token
    THEN [raised |-> TRUE, rows |-> rows]
    ELSE [raised |-> FALSE, rows |-> With(rows, b, NewBot(owner_id, token))]

get_owned_bot(b, owner_id) ==
    IF get_bot(b) = NoRow \/ get_bot(b).owner_id # owner_id THEN NoRow ELSE get_bot(b)

\* iter_all_bots(), as a sequence (one bot per username).
SeqOfOne(S) == IF S = {} THEN <<>> ELSE << CHOOSE y \in S : TRUE >>
RECURSIVE SeqOf(_)
SeqOf(S) == IF S = {} THEN <<>> ELSE LET x == CHOOSE y \in S : TRUE IN <<x>> \o SeqOf(S \ {x})

MgrObs(op, b, o, outcome, notice) == Obs(op, b, o, outcome, notice)

\* manager_callback 'menu:add'
MgrAdd(o) ==
    /\ mgr.pc = "idle"
    /\ user_data' = [user_data EXCEPT ![o].await_token = TRUE]
    /\ last' = MgrObs("mgr_add", None, o, "prompt", "send_token")
    /\ UNCHANGED << store, pending_challenges, running_apps, apps, mgr, transport >>

\* manager_callback 'mode:<bot>:<mode>'
MgrMode(o, b, mode) ==
    /\ mgr.pc = "idle"
    /\ LET row == get_owned_bot(b, o)
       IN  IF row = NoRow
           THEN /\ last' = MgrObs("mgr_mode", b, o, "not_found", "not_found")
                /\ UNCHANGED bots
           ELSE IF mode = "forum" /\ ~Truthy(row["forum_group_id"])
           THEN /\ last' = MgrObs("mgr_mode", b, o, "rejected", "bind_first")
                /\ UNCHANGED bots
           ELSE /\ bots' = [bots EXCEPT ![b].mode = mode]
                /\ last' = MgrObs("mgr_mode", b, o, mode, "detail")
    /\ UNCHANGED << owners, direct_routes, forum_topics, blacklist, verified_users,
                    pending_challenges, running_apps, apps, user_data, mgr, transport >>

\* manager_callback 'forum:<bot>'
MgrForum(o, b) ==
    /\ mgr.pc = "idle"
    /\ IF get_owned_bot(b, o) = NoRow
       THEN /\ last' = MgrObs("mgr_forum", b, o, "not_found", "not_found")
            /\ UNCHANGED user_data
       ELSE /\ user_data' = [user_data EXCEPT ![o].await_forum = b]
            /\ last' = MgrObs("mgr_forum", b, o, "prompt", "send_group")
    /\ UNCHANGED << store, pending_challenges, running_apps, apps, mgr, transport >>

\* manager_callback 'captcha:toggle:<bot>'
MgrCaptchaToggle(o, b) ==
    /\ mgr.pc = "idle"
    /\ LET row == get_owned_bot(b, o)
       IN  IF row = NoRow
           THEN /\ last' = MgrObs("mgr_captcha", b, o, "not_found", "not_found")
                /\ UNCHANGED bots
           ELSE /\ bots' = [bots EXCEPT ![b].captcha_enabled = ~captcha_enabled(row)]
                /\ last' = MgrObs("mgr_captcha", b, o,
                                  IF captcha_enabled(row) THEN "off" ELSE "on", "detail")
    /\ UNCHANGED << owners, direct_routes, forum_topics, blacklist, verified_users,
                    pending_challenges, running_apps, apps, user_data, mgr, transport >>

\* ------------------------------------------------------------ session lifecycle
\* ensure_sub_bot up to its first await: nothing when the identity is in the
\* running set; else an Application with the two handlers bound to owner_id is
\* built and put in the running set, before initialize()/start()/start_polling().
ensure_sub_bot_rebuild(b, owner_id) ==
    [started |-> TRUE, running |-> running_apps \cup {b},
     apps |-> With(apps, b, [owner_id |-> owner_id, state |-> "built"])]
ensure_sub_bot(b, owner_id) ==
    IF b \in running_apps
    THEN [started |-> FALSE, running |-> running_apps, apps |-> apps]
    ELSE [started |-> TRUE, running |-> running_apps \cup {b},
          apps |-> With(apps, b, [owner_id |-> owner_id, state |-> "built"])]

\* shutdown_sub_bot up to its first await: the identity leaves the running set;
\* updater.stop() raises for an updater that never started polling.
shutdown_sub_bot_detached(b) ==
    [result |-> "absent", running |-> running_apps \ {b}, apps |-> apps]
shutdown_sub_bot(b) ==
    IF b \notin running_apps
    THEN [result |-> "absent", running |-> running_apps, apps |-> apps]
    ELSE IF apps[b].state = "polling"
    THEN [result |-> "stopping", running |-> running_apps \ {b},
          apps |-> [apps EXCEPT ![b].state = "draining"]]
    ELSE [result |-> "raised", running |-> running_apps \ {b}, apps |-> Without(apps, b)]

\* remove_bot: one transaction over the five tables.
remove_bot(b) ==
    [bots |-> remove_bot_rows(bots, b),
     direct_routes |-> remove_bot_keyed(direct_routes, b),
     forum_topics |-> remove_bot_pairs(forum_topics, b),
     blacklist |-> remove_bot_pairs(blacklist, b),
     verified_users |-> remove_bot_pairs(verified_users, b)]

StoreAfterRemove(b) ==
    /\ bots' = remove_bot(b).bots
    /\ direct_routes' = remove_bot(b).direct_routes
    /\ forum_topics' = remove_bot(b).forum_topics
    /\ blacklist' = remove_bot(b).blacklist
    /\ verified_users' = remove_bot(b).verified_users
    /\ UNCHANGED owners

\* manager_callback 'drop:<bot>', up to the first await of shutdown_sub_bot (or to
\* its end when shutdown_sub_bot does not await).
MgrDrop(o, b) ==
    /\ mgr.pc = "idle"
    /\ IF get_owned_bot(b, o) = NoRow
       THEN /\ last' = MgrObs("mgr_drop", b, o, "not_found", "not_found")
            /\ UNCHANGED << store, running_apps, apps, mgr >>
       ELSE LET s == shutdown_sub_bot(b)
            IN  /\ running_apps' = s.running
                /\ apps' = s.apps
                /\ CASE s.result = "absent" ->
                          /\ StoreAfterRemove(b)
                          /\ last' = MgrObs("mgr_drop", b, o, "dropped", "dropped")
                          /\ UNCHANGED mgr
                     [] s.result = "stopping" ->
                          /\ mgr' = Mgr("drop", b, o, <<>>)
                          /\ last' = MgrObs("mgr_drop", b, o, "stopping", "none")
                          /\ UNCHANGED store
                     [] s.result = "raised" ->
                          /\ last' = MgrObs("mgr_drop", b, o, "error", "none")
                          /\ UNCHANGED << store, mgr >>
    /\ UNCHANGED << pending_challenges, user_data, transport >>

\* The rest of the drop handler: Application.stop() has drained the update queue,
\* the application is shut down, and remove_bot runs.
MgrDropFinish ==
    /\ mgr.pc = "drop"
    /\ apps' = Without(apps, mgr.bot)
    /\ StoreAfterRemove(mgr.bot)
    /\ mgr' = MgrIdle
    /\ last' = MgrObs("mgr_drop", mgr.bot, mgr.owner, "dropped", "dropped")
    /\ UNCHANGED << pending_challenges, running_apps, user_data, transport >>

\* register_token_flow, from the answer of get_me() (names: the usernames it can
\* report) up to the first await of ensure_sub_bot.  upsert_owner commits before
\* register_bot runs, and register_bot's IntegrityError ends the handler.
register_token_flow(o, token) ==
    IF GetMe(token) = {}
    THEN /\ last' = [MgrObs("mgr_register", None, o, "invalid_token", "invalid_token")
                        EXCEPT !.text = token]
         /\ UNCHANGED << owners, bots, running_apps, apps, mgr >>
    ELSE \E b \in GetMe(token) :
         IF get_bot(b) # NoRow
         THEN /\ last' = [MgrObs("mgr_register", b, o, "duplicate", "duplicate")
                             EXCEPT !.text = token]
              /\ UNCHANGED << owners, bots, running_apps, apps, mgr >>
         ELSE LET r == register_bot(bots, o, token, b)
                  e == ensure_sub_bot(b, o)
              IN  /\ owners' = upsert_owner(owners, o)
                  /\ bots' = r.rows
                  /\ IF r.raised
                     THEN /\ last' = [MgrObs("mgr_register", b, o, "error", "none")
                                         EXCEPT !.text = token]
                          /\ UNCHANGED << running_apps, apps, mgr >>
                     ELSE /\ running_apps' = e.running
                          /\ apps' = e.apps
                          /\ mgr' = IF e.started THEN Mgr("ensure_reg", b, o, <<>>) ELSE mgr
                          /\ last' = [MgrObs("mgr_register", b, o,
                                             IF e.started THEN "starting" ELSE "registered",
                                             IF e.started THEN "none" ELSE "registered")
                                         EXCEPT !.text = token]

\* assign_forum_flow
assign_forum_flow(o, b, raw_value) ==
    IF get_bot(b) = NoRow
    THEN /\ last' = MgrObs("mgr_bind", b, o, "not_found", "not_found")
         /\ UNCHANGED bots
    ELSE IF ParseInt(raw_value).raised
    THEN /\ last' = MgrObs("mgr_bind", b, o, "not_numeric", "not_numeric")
         /\ UNCHANGED bots
    ELSE /\ bots' = [bots EXCEPT ![b].forum_group_id = ParseInt(raw_value).value]
         /\ last' = MgrObs("mgr_bind", b, o, "bound", "bound")

\* handle_manager_text: the text completes the pending prompt, the token prompt
\* before the group prompt.
MgrText(o, text) ==
    /\ mgr.pc = "idle"
    /\ text # NoText
    /\ IF user_data[o].await_token
       THEN /\ user_data' = [user_data EXCEPT ![o].await_token = FALSE]
            /\ register_token_flow(o, Strip(text))
       ELSE /\ user_data[o].await_forum # None
            /\ user_data' = [user_data EXCEPT ![o].await_forum = None]
            /\ assign_forum_flow(o, user_data[o].await_forum, Strip(text))
            /\ UNCHANGED << owners, running_apps, apps, mgr >>
    /\ UNCHANGED << direct_routes, forum_topics, blacklist, verified_users,
                    pending_challenges, transport >>

\* ensure_sub_bot's awaits (initialize, start, start_polling) end: the updater
\* polls, or one of them raised.  Inside register_token_flow the handler ends
\* either way; inside main() an exception ends the process.
EnsureFinish(ok) ==
    /\ mgr.pc \in {"ensure_reg", "ensure_boot", "ensure_call"}
    /\ IF ok
       THEN /\ apps' = [apps EXCEPT ![mgr.bot].state = "polling"]
            /\ mgr' = IF mgr.pc = "ensure_boot" THEN Mgr("boot", None, NoId, mgr.todo)
                      ELSE MgrIdle
            /\ last' = MgrObs("ensure", mgr.bot, mgr.owner, "started",
                              IF mgr.pc = "ensure_reg" THEN "registered" ELSE "none")
            /\ UNCHANGED << running_apps, pending_challenges, user_data >>
       ELSE IF mgr.pc # "ensure_boot"
       THEN /\ mgr' = MgrIdle
            /\ last' = MgrObs("ensure", mgr.bot, mgr.owner, "error", "none")
            /\ UNCHANGED << running_apps, apps, pending_challenges, user_data >>
       ELSE /\ mgr' = Mgr("dead", None, NoId, <<>>)
            /\ running_apps' = {}
            /\ apps' = <<>>
            /\ pending_challenges' = <<>>
            /\ user_data' = [o \in AllOwners |-> NoPrompts]
            /\ last' = MgrObs("ensure", mgr.bot, mgr.owner, "crashed", "none")
    /\ UNCHANGED << store, transport >>

\* main(): spin_existing_bots starts the next stored identity, or, after the last,
\* the manager application starts.
BootStep ==
    /\ mgr.pc = "boot"
    /\ IF mgr.todo = <<>>
       THEN /\ mgr' = MgrIdle
            /\ last' = MgrObs("boot", None, NoId, "manager_started", "none")
            /\ UNCHANGED << running_apps, apps >>
       ELSE LET b == Head(mgr.todo)
                e == ensure_sub_bot(b, bots[b].owner_id)
            IN  /\ running_apps' = e.running
                /\ apps' = e.apps
                /\ mgr' = IF e.started
                          THEN Mgr("ensure_boot", b, bots[b].owner_id, Tail(mgr.todo))
                          ELSE Mgr("boot", None, NoId, Tail(mgr.todo))
                /\ last' = MgrObs("boot", b, NoId, "starting", "none")
    /\ UNCHANGED << store, pending_challenges, user_data, transport >>

\* The process is stopped and started again: the store is kept, the module-level
\* dicts and the applications are new, and main() runs.
RestartKeepingCache ==
    /\ mgr' = Mgr("boot", None, NoId, SeqOf(DOMAIN bots))
    /\ running_apps' = {}
    /\ apps' = <<>>
    /\ user_data' = [o \in AllOwners |-> NoPrompts]
    /\ last' = [MgrObs("restart", None, NoId, "restarted", "none")
                   EXCEPT !.made = Cardinality(DOMAIN pending_challenges)]
    /\ UNCHANGED << store, pending_challenges, transport >>
Restart ==
    /\ mgr' = Mgr("boot", None, NoId, SeqOf(DOMAIN bots))
    /\ running_apps' = {}
    /\ apps' = <<>>
    /\ pending_challenges' = <<>>
    /\ user_data' = [o \in AllOwners |-> NoPrompts]
    \* made: the number of challenges the old process had cached
    /\ last' = [MgrObs("restart", None, NoId, "restarted", "none")
                   EXCEPT !.made = Cardinality(DOMAIN pending_challenges)]
    /\ UNCHANGED << store, transport >>

\* A topic is deleted in its group, outside the program.
DeleteTopic(g, tid) ==
    /\ <<g, tid>> \in liveTopics
    /\ liveTopics' = liveTopics \ { <<g, tid>> }
    /\ last' = Obs("env", None, NoId, "topic_deleted", "none")
    /\ UNCHANGED << store, pending_challenges, running_apps, apps, user_data, mgr,
                    nextMsgId, nextTopic >>

\* ------------------------------------------------------------ direct calls
\* ensure_sub_bot and shutdown_sub_bot called on their own, one call at a time
\* (their callers are handlers of the manager application and main()).
CallEnsure(b, o) ==
    /\ mgr.pc = "idle"
    /\ LET e == ensure_sub_bot(b, o)
       IN  /\ running_apps' = e.running
           /\ apps' = e.apps
           /\ mgr' = IF e.started THEN Mgr("ensure_call", b, o, <<>>) ELSE mgr
           /\ last' = MgrObs("call_ensure", b, o,
                             IF e.started THEN "starting" ELSE "already", "none")
    /\ UNCHANGED << store, pending_challenges, user_data, transport >>

CallShutdown(b) ==
    /\ mgr.pc = "idle"
    /\ LET s == shutdown_sub_bot(b)
       IN  /\ running_apps' = s.running
           /\ apps' = s.apps
           /\ mgr' = IF s.result = "stopping" THEN Mgr("stop", b, NoId, <<>>) ELSE mgr
           /\ last' = MgrObs("call_shutdown", b, NoId, s.result, "none")
    /\ UNCHANGED << store, pending_challenges, user_data, transport >>

\* shutdown_sub_bot called while ensure_sub_bot for the same identity is
\* suspended in initialize() / start() / start_polling(): the identity is popped
\* from the running set, updater.stop() raises because the updater does not poll
\* yet, and the suspended ensure_sub_bot still holds the application it built.
CallShutdownWhileStarting(b) ==
    /\ mgr.pc = "ensure_call" /\ mgr.bot = b
    /\ running_apps' = shutdown_sub_bot(b).running
    /\ last' = MgrObs("call_shutdown", b, NoId, shutdown_sub_bot(b).result, "none")
    /\ UNCHANGED << store, pending_challenges, apps, user_data, mgr, transport >>

\* shutdown_sub_bot's awaits end: the update queue is drained and the application
\* is shut down.
ShutdownFinish ==
    /\ mgr.pc = "stop"
    /\ apps' = Without(apps, mgr.bot)
    /\ mgr' = MgrIdle
    /\ last' = MgrObs("shutdown", mgr.bot, NoId, "stopped", "none")
    /\ UNCHANGED << store, pending_challenges, running_apps, user_data, transport >>

\* The Database methods of the blacklist and of the verified set, called on their
\* own with any (identity, user).
DbObs(op, b, u, outcome) == [Obs(op, b, NoId, outcome, "none") EXCEPT !.to = u]

Returned(v) == IF v THEN "true" ELSE "false"

DbAddBlacklist(b, u) ==
    /\ LET a == add_blacklist(blacklist, b, u)
       IN  /\ blacklist' = IF a.raised THEN blacklist ELSE a.rows
           /\ last' = DbObs("add_blacklist", b, u,
                            IF a.raised THEN "raised" ELSE Returned(a.result))
    /\ UNCHANGED << owners, bots, direct_routes, forum_topics, verified_users,
                    pending_challenges, running_apps, apps, user_data, mgr, transport >>

DbRemoveBlacklist(b, u) ==
    /\ blacklist' = remove_blacklist(blacklist, b, u).rows
    /\ last' = DbObs("remove_blacklist", b, u, Returned(remove_blacklist(blacklist, b, u).result))
    /\ UNCHANGED << owners, bots, direct_routes, forum_topics, verified_users,
                    pending_challenges, running_apps, apps, user_data, mgr, transport >>

DbVerifyUser(b, u) ==
    /\ verified_users' = verify_user(verified_users, b, u)
    /\ last' = DbObs("verify_user", b, u, "returned")
    /\ UNCHANGED << owners, bots, direct_routes, forum_topics, blacklist,
                    pending_challenges, running_apps, apps, user_data, mgr, transport >>

DbUnverifyUser(b, u) ==
    /\ verified_users' = unverify_user(verified_users, b, u).rows
    /\ last' = DbObs("unverify_user", b, u, Returned(unverify_user(verified_users, b, u).result))
    /\ UNCHANGED << owners, bots, direct_routes, forum_topics, blacklist,
                    pending_challenges, running_apps, apps, user_data, mgr, transport >>

\* ------------------------------------------------------------ specifications
\* The transport has forwarded at most m messages into each owner's chat and
\* created at most t topics in each group.
Cap(m, t) ==
    /\ \A b \in AllBots : nextMsgId[b] <= m + 1
    /\ \A g \in AllGroups : nextTopic[g] <= t + 1

\* The transport has forwarded at most n messages and created at most n topics
\* in total.
CapTotal(n) ==
    \A b \in AllBots, g \in AllGroups : (nextMsgId[b] - 1) + (nextTopic[g] - 1) <= n

\* The row of a registered identity, as the manager's buttons can leave it.
BotRow(owner_id, mode, forum_group_id, captcha) ==
    [NewBot(owner_id, <<"t", "1">>) EXCEPT
        !.mode = mode, !.forum_group_id = forum_group_id, !.captcha_enabled = captcha]

\* main() starts over a store left by earlier runs of the process: the rows of
\* one identity and no relayed message yet.
InitOver(rows) ==
    /\ owners = { rows[b].owner_id : b \in DOMAIN rows }
    /\ bots = rows
    /\ direct_routes = <<>>
    /\ forum_topics = {}
    /\ blacklist = {}
    /\ verified_users = {}
    /\ pending_challenges = <<>>
    /\ running_apps = {}
    /\ apps = <<>>
    /\ user_data = [o \in AllOwners |-> NoPrompts]
    /\ mgr = Mgr("boot", None, NoId, SeqOf(DOMAIN rows))
    /\ nextMsgId = [b \in AllBots |-> 1]
    /\ nextTopic = [g \in AllGroups |-> 1]
    /\ liveTopics = {}
    /\ last = Obs("init", None, NoId, "init", "none")

\* ---- Spec: the whole program over an empty store, one end-user.
LifeUsers == {1}
LifeTexts == { <<"7">>, <<"h", "i">> }
LifeChallenges == { [answer |-> <<"7">>] }
LifeCmdTexts == { <<"/", "b", " ", "1">>, <<"/", "u", "v", " ", "1">> }
ManagerTexts == { <<"t", "1">>, <<"x">>, <<" ", "-", "1">>, <<"0">> }

Init == InitOver(<<>>)

Next ==
    \/ \E b \in Bots, u \in LifeUsers : SubbotStart(b, u, LifeChallenges)
    \/ \E b \in Bots, u \in LifeUsers, text \in LifeTexts :
          ClientMessage(b, u, text, LifeChallenges, 0) /\ Cap(LifeRelays, LifeRelays)'
    \/ \E b \in Bots, o \in Owners, text \in LifeCmdTexts :
          OwnerCommand(b, o, text, NoReply, NoId, NoId)
    \/ \E b \in Bots, replyId \in 1..LifeRelays, copyOk \in BOOLEAN :
          OwnerPrivate(b, replyId, copyOk)
    \/ \E o \in Owners : MgrAdd(o)
    \/ \E o \in Owners, b \in Bots, mode \in {"direct", "forum"} : MgrMode(o, b, mode)
    \/ \E o \in Owners, b \in Bots : MgrForum(o, b)
    \/ \E o \in Owners, b \in Bots : MgrCaptchaToggle(o, b)
    \/ \E o \in Owners, text \in ManagerTexts : MgrText(o, text)
    \/ \E o \in Owners, b \in Bots : MgrDrop(o, b)
    \/ MgrDropFinish
    \/ \E ok \in BOOLEAN : EnsureFinish(ok)
    \/ BootStep
    \/ Restart

Spec == Init /\ [][Next]_vars

\* ---- SpecGate: the verification gate of one registered identity, two end-users.
GateCmdTexts ==
    { <<"/", "b", " ", "1">>, <<"/", "u", "b", " ", "1">>, <<"/", "u", "v", " ", "1">>,
      <<"/", "u", "v", " ", "2">> }

InitGate == InitOver("b1" :> BotRow(9, "direct", -1, TRUE))

NextGate ==
    \/ \E b \in Bots, u \in Users : SubbotStart(b, u, Challenges)
    \/ \E b \in Bots, u \in Users, text \in ClientTexts :
          ClientMessage(b, u, text, Challenges, 0) /\ CapTotal(GateRelays)'
    \/ \E b \in Bots, o \in Owners, text \in GateCmdTexts :
          OwnerCommand(b, o, text, NoReply, NoId, NoId)
    \/ \E o \in Owners, b \in Bots : MgrCaptchaToggle(o, b)
    \/ \E o \in Owners, b \in Bots, mode \in {"direct", "forum"} : MgrMode(o, b, mode)
    \/ \E ok \in BOOLEAN : EnsureFinish(ok)
    \/ BootStep
    \/ Restart

SpecGate == InitGate /\ [][NextGate]_vars

\* ---- SpecDirect: one identity in direct mode with the gate off.
DirectCmdTexts ==
    { <<"/", "b">>, <<"/", "u", "b">>, <<"/", "i", "d">>, <<"/", "b", "l">>, <<"/", "x">>,
      <<"/", "b", " ", "-", "-", "1">>, <<"/", "u", "v", " ", "a">> }

InitDirect == InitOver("b1" :> BotRow(9, "direct", NoId, FALSE))

NextDirect ==
    \/ \E b \in Bots, u \in Users, failAt \in 0..1 :
          ClientMessage(b, u, <<"h", "i">>, Challenges, failAt)
             /\ Cap(MaxMsgId, 0)'
    \/ \E b \in Bots, o \in Owners, text \in DirectCmdTexts, mid \in 0..MaxMsgId :
          OwnerCommand(b, o, text,
                       IF mid = NoId THEN NoReply ELSE Reply(mid, NoId, NoId, o),
                       NoId, NoId)
    \/ \E b \in Bots, replyId \in 0..MaxMsgId, copyOk \in BOOLEAN :
          OwnerPrivate(b, replyId, copyOk)
    \/ \E ok \in BOOLEAN : EnsureFinish(ok)
    \/ BootStep
    \/ Restart

SpecDirect == InitDirect /\ [][NextDirect]_vars

\* ---- SpecForum: one identity in topic mode with the gate off.
ForumCmdTexts == { <<"/", "b">>, <<"/", "u", "b">>, <<"/", "i", "d">> }

InitForum == InitOver("b1" :> BotRow(9, "forum", -1, FALSE))

NextForum ==
    \/ \E b \in Bots, u \in Users, failAt \in 0..4 :
          ClientMessage(b, u, <<"h", "i">>, Challenges, failAt)
             /\ Cap(0, MaxTopicId)'
    \/ \E b \in Bots, g \in Groups, text \in ForumCmdTexts, tid \in 1..MaxTopicId,
          pick \in Users :
          OwnerCommand(b, g, text, NoReply, tid, pick)
    \/ \E b \in Bots, sender \in People, g \in Groups, tid \in 1..MaxTopicId,
          pick \in Users, copyOk \in BOOLEAN :
          TopicMessage(b, sender, g, tid, pick, copyOk)
    \/ \E g \in Groups, tid \in 1..MaxTopicId : DeleteTopic(g, tid)
    \/ \E ok \in BOOLEAN : EnsureFinish(ok)
    \/ BootStep
    \/ Restart

SpecForum == InitForum /\ [][NextForum]_vars

\* ---- SpecStore: the blacklist and verified-set methods applied to every
\* (identity, user), and the owner's commands that call them.
CommandText(name, u) == <<"/">> \o name \o <<" ">> \o (IF u = 1 THEN <<"1">> ELSE <<"2">>)

StoreCmdTexts ==
    { CommandText(name, u) : name \in { <<"b">>, <<"u", "b">>, <<"u", "v">> }, u \in Users }

InitStore == InitOver("b1" :> BotRow(9, "direct", -1, TRUE))

NextStore ==
    \/ \E b \in Bots, u \in Users : DbAddBlacklist(b, u)
    \/ \E b \in Bots, u \in Users : DbRemoveBlacklist(b, u)
    \/ \E b \in Bots, u \in Users : DbVerifyUser(b, u)
    \/ \E b \in Bots, u \in Users : DbUnverifyUser(b, u)
    \/ \E b \in Bots, o \in Owners, text \in StoreCmdTexts :
          OwnerCommand(b, o, text, NoReply, NoId, NoId)
    \/ \E ok \in BOOLEAN : EnsureFinish(ok)
    \/ BootStep

SpecStore == InitStore /\ [][NextStore]_vars

\* ---- SpecRegistry: two owners register, start and drop two identities; the
\* process restarts over the store they leave.
RegistryTexts == { <<"t", "1">>, <<"t", "2">>, <<"t", "3">>, <<"x">> }

InitRegistry == InitOver(<<>>)

NextRegistry ==
    \/ \E o \in AllOwners : MgrAdd(o)
    \/ \E o \in AllOwners, text \in RegistryTexts : MgrText(o, text)
    \/ \E o \in AllOwners, b \in AllBots : MgrDrop(o, b)
    \/ MgrDropFinish
    \/ \E ok \in BOOLEAN : EnsureFinish(ok)
    \/ BootStep
    \/ Restart

SpecRegistry == InitRegistry /\ [][NextRegistry]_vars

\* ---- SpecSessions: any sequence of start and stop calls for two identities.
InitSessions == InitOver(<<>>)

NextSessions ==
    \/ \E b \in AllBots, o \in AllOwners : CallEnsure(b, o)
    \/ \E b \in AllBots : CallShutdown(b)
    \/ ShutdownFinish
    \/ \E ok \in BOOLEAN : EnsureFinish(ok)
    \/ BootStep

SpecSessions == InitSessions /\ [][NextSessions]_vars

\* ---- SpecOwnership: two owners register, configure and drop one username.
OwnershipTexts == { <<"t", "1">>, <<"-", "1">>, <<"x">> }

InitOwnership == InitOver(<<>>)

NextOwnership ==
    \/ \E o \in AllOwners : MgrAdd(o)
    \/ \E o \in AllOwners, text \in OwnershipTexts : MgrText(o, text)
    \/ \E o \in AllOwners, b \in Bots : MgrForum(o, b)
    \/ \E o \in AllOwners, b \in Bots, mode \in {"direct", "forum"} : MgrMode(o, b, mode)
    \/ \E o \in AllOwners, b \in Bots : MgrCaptchaToggle(o, b)
    \/ \E o \in AllOwners, b \in Bots : MgrDrop(o, b)
    \/ MgrDropFinish
    \/ \E ok \in BOOLEAN : EnsureFinish(ok)
    \/ BootStep

SpecOwnership == InitOwnership /\ [][NextOwnership]_vars

\* ---- SpecInterleave: start and stop calls for two identities, a stop also
\* while the start of the same identity is suspended.
InitInterleave == InitOver(<<>>)

NextInterleave ==
    \/ \E b \in AllBots, o \in AllOwners : CallEnsure(b, o)
    \/ \E b \in AllBots : CallShutdown(b)
    \/ \E b \in AllBots : CallShutdownWhileStarting(b)
    \/ ShutdownFinish
    \/ \E ok \in BOOLEAN : EnsureFinish(ok)
    \/ BootStep

SpecInterleave == InitInterleave /\ [][NextInterleave]_vars

\* ---- SpecRebind: one identity in topic mode whose owner binds it to one
\* group and then to another.
RebindTexts == { <<"-", "1">>, <<"-", "2">> }

InitRebind == InitOver("b1" :> BotRow(9, "forum", -1, FALSE))

NextRebind ==
    \/ \E b \in Bots, u \in Users :
          ClientMessage(b, u, <<"h", "i">>, Challenges, 0) /\ Cap(0, MaxTopicId)'
    \/ \E o \in Owners, b \in Bots : MgrForum(o, b)
    \/ \E o \in Owners, text \in RebindTexts : MgrText(o, text)
    \/ \E b \in Bots, sender \in Owners, g \in AllGroups, tid \in 1..MaxTopicId,
          pick \in Users :
          TopicMessage(b, sender, g, tid, pick, TRUE)
    \/ \E ok \in BOOLEAN : EnsureFinish(ok)
    \/ BootStep

SpecRebind == InitRebind /\ [][NextRebind]_vars

\* ---- SpecTwo: two identities of one owner, one in direct mode and one in
\* topic mode, both with the gate on, serving the same end-user.
TwoRows ==
    ("b1" :> BotRow(9, "direct", NoId, TRUE))
       @@ ("b2" :> [BotRow(9, "forum", -1, TRUE) EXCEPT !.token = <<"t", "2">>])

InitTwo == InitOver(TwoRows)

NextTwo ==
    \/ \E b \in AllBots, u \in LifeUsers : SubbotStart(b, u, LifeChallenges)
    \/ \E b \in AllBots, u \in LifeUsers, text \in LifeTexts :
          ClientMessage(b, u, text, LifeChallenges, 0) /\ Cap(TwoRelays, TwoRelays)'
    \/ \E b \in AllBots, o \in Owners, text \in LifeCmdTexts :
          OwnerCommand(b, o, text, NoReply, NoId, NoId)
    \/ \E b \in AllBots, replyId \in 1..TwoRelays, copyOk \in BOOLEAN :
          OwnerPrivate(b, replyId, copyOk)
    \/ \E b \in AllBots, sender \in Owners, g \in Groups, tid \in 1..TwoRelays,
          pick \in LifeUsers :
          TopicMessage(b, sender, g, tid, pick, TRUE)
    \/ \E ok \in BOOLEAN : EnsureFinish(ok)
    \/ BootStep

SpecTwo == InitTwo /\ [][NextTwo]_vars

\* ------------------------------------------------------------ properties
\* The ops of the handlers of a relay identity (subbot_start, handle_client).
HandlerOps == {"start", "client", "owner_cmd", "owner_reply", "topic_msg"}

\* C1: with the gate enabled, a private message of an end-user who has no
\* VerificationRecord is never relayed, whatever the routing mode: the handler
\* ends blocked (as blacklisted) or inside the gate (a challenge is issued, or the
\* text is processed as an answer), it makes no transport call that forwards or
\* creates a topic, and direct_routes and forum_topics stay as they were.
C1_GateConsumesUnverified ==
    [][\A b \in Bots, u \in Users :
          (/\ last'.op = "client" /\ last'.bot = b /\ last'.user = u
           /\ b \in DOMAIN bots /\ bots[b].captcha_enabled
           /\ <<b, u>> \notin verified_users)
          => /\ last'.outcome \in {"blacklisted", "challenge_issued", "retry", "verified_now"}
             /\ (<<b, u>> \notin blacklist => last'.outcome # "blacklisted")
             /\ (last'.outcome = "challenge_issued" => <<b, u>> \in DOMAIN pending_challenges')
             /\ last'.fid = NoId /\ last'.tid = NoId /\ last'.made = 0
             /\ UNCHANGED << direct_routes, forum_topics, nextMsgId, nextTopic, liveTopics >>
      ]_vars

\* C1 witness: in topic mode with the gate on, an unverified end-user's message
\* was answered with a challenge and nothing was relayed or bound.
C1_Witness ==
    /\ last.op = "client" /\ last.outcome = "challenge_issued"
    /\ bots[last.bot].captcha_enabled /\ bots[last.bot].mode = "forum"
    /\ <<last.bot, last.user>> \notin verified_users
    /\ <<last.bot, last.user>> \in DOMAIN pending_challenges
    /\ direct_routes = <<>> /\ forum_topics = {}

\* C2: when a challenged, not blacklisted end-user sends the expected answer
\* (bare or padded with blanks), the answering message is not relayed, the
\* VerificationRecord is written and the pending challenge is removed; and a
\* message of a verified, not blacklisted end-user is relayed by the strategy of
\* the routing mode (a RoutingEntry for the forwarded copy in direct mode, a
\* forward into the user's bound live topic in topic mode).
C2_AnswerVerifiesThenRelays ==
    [][\A b \in Bots, u \in Users :
          (/\ last'.op = "client" /\ last'.bot = b /\ last'.user = u
           /\ b \in DOMAIN bots /\ bots[b].captcha_enabled
           /\ <<b, u>> \notin blacklist)
          => /\ (/\ <<b, u>> \notin verified_users
                 /\ <<b, u>> \in DOMAIN pending_challenges
                 /\ \/ last'.text = pending_challenges[<<b, u>>].answer
                    \/ last'.text = <<" ">> \o pending_challenges[<<b, u>>].answer \o <<" ">>)
                => /\ last'.outcome = "verified_now"
                   /\ last'.fid = NoId /\ last'.tid = NoId
                   /\ UNCHANGED << direct_routes, forum_topics, nextMsgId, nextTopic >>
                   /\ <<b, u>> \in verified_users'
                   /\ <<b, u>> \notin DOMAIN pending_challenges'
             /\ (<<b, u>> \in verified_users /\ bots[b].mode = "direct")
                => /\ last'.outcome = "relayed_direct"
                   /\ <<b, last'.fid>> \in DOMAIN direct_routes'
                   /\ direct_routes'[<<b, last'.fid>>] = u
             /\ (<<b, u>> \in verified_users /\ bots[b].mode = "forum")
                => /\ last'.outcome = "relayed_forum"
                   /\ <<b, u, last'.tid>> \in forum_topics'
                   /\ <<bots[b].forum_group_id, last'.tid>> \in liveTopics'
      ]_vars

\* C2 witness: with the gate on, a message of an end-user who got verified was
\* forwarded to the owner and its RoutingEntry names that user.
C2_Witness ==
    /\ last.op = "client" /\ last.outcome = "relayed_direct"
    /\ bots[last.bot].captcha_enabled
    /\ <<last.bot, last.user>> \in verified_users
    /\ <<last.bot, last.fid>> \in DOMAIN direct_routes
    /\ direct_routes[<<last.bot, last.fid>>] = last.user

\* C3: gate monotonicity.  While a VerificationRecord exists for (identity, user)
\* no step (a message, /start, a gate toggle, a mode switch, a restart) leaves a
\* challenge cached for that pair, and the record is deleted by nothing but the
\* owner's unverify command for that user.
C3_GateMonotone ==
    [][\A p \in verified_users :
          /\ p \notin DOMAIN pending_challenges'
          /\ p \notin verified_users'
             => /\ last'.op = "owner_cmd" /\ last'.outcome = "unverified"
                /\ last'.bot = p[1] /\ last'.to = p[2]
      ]_vars

\* C3 witness: with the gate on, /start of a verified end-user was answered with
\* the welcome text and no challenge is cached for them.
C3_Witness ==
    /\ last.op = "start" /\ last.outcome = "welcome"
    /\ bots[last.bot].captcha_enabled
    /\ <<last.bot, last.user>> \in verified_users
    /\ <<last.bot, last.user>> \notin DOMAIN pending_challenges

\* C4: the RoutingEntry of a forwarded copy names the end-user who sent the
\* message; and when the owner replies in their private chat (no command) to a
\* copy whose RoutingEntry exists, the owner's message is addressed to that user
\* alone (delivered unless the transport refuses the copy), and that entry, and
\* no other, is deleted.
C4_OwnerReplyReachesSender ==
    [][/\ \A b \in Bots, u \in Users :
             (/\ last'.op = "client" /\ last'.bot = b /\ last'.user = u
              /\ last'.outcome = "relayed_direct")
             => /\ last'.fid = nextMsgId[b]
                /\ direct_routes' = (<<b, last'.fid>> :> u) @@ direct_routes
                /\ direct_routes'[<<b, last'.fid>>] = u
       /\ \A k \in DOMAIN direct_routes :
             (last'.op = "owner_reply" /\ last'.bot = k[1] /\ last'.fid = k[2])
             => /\ last'.to = direct_routes[k]
                /\ last'.outcome \in {"replied", "error"}
                /\ last'.sent <=> last'.outcome = "replied"
                /\ DOMAIN direct_routes' = DOMAIN direct_routes \ {k}
                /\ \A j \in DOMAIN direct_routes' : direct_routes'[j] = direct_routes[j]
      ]_vars

\* C4 witness: two users' messages were forwarded, the owner replied to the second
\* copy, the reply reached user 2 and only the first copy's entry is left.
C4_Witness ==
    /\ last.op = "owner_reply" /\ last.outcome = "replied" /\ last.sent
    /\ last.fid = 2 /\ last.to = 2
    /\ DOMAIN direct_routes = { <<last.bot, 1>> }
    /\ direct_routes[<<last.bot, 1>>] = 1

\* C5: one-shot law.  A reply that names a copy leaves no RoutingEntry under its
\* correlation id, and resolves a user exactly when the entry existed; an entry
\* appears only when relay_direct records the copy it has just forwarded, whose
\* id the transport has never used before; so a copy is answered at most once.
C5_OneShot ==
    [][/\ \A k \in DOMAIN direct_routes : k[2] < nextMsgId[k[1]]
       /\ \A b \in Bots : nextMsgId'[b] >= nextMsgId[b]
       /\ \A k \in DOMAIN direct_routes' :
             k \notin DOMAIN direct_routes
             => /\ last'.op = "client" /\ last'.outcome = "relayed_direct"
                /\ last'.bot = k[1] /\ last'.fid = k[2]
                /\ k[2] = nextMsgId[k[1]] /\ nextMsgId'[k[1]] = k[2] + 1
       /\ (last'.op = "owner_reply" /\ last'.fid # NoId /\ last'.outcome # "config_invalid")
          => /\ <<last'.bot, last'.fid>> \notin DOMAIN direct_routes'
             /\ last'.to # NoId <=> <<last'.bot, last'.fid>> \in DOMAIN direct_routes
             /\ last'.sent => last'.to # NoId
      ]_vars

\* C5 witness: the owner replied to a copy that had been forwarded and answered
\* before; the pop found nothing and nothing was sent.
C5_Witness ==
    /\ last.op = "owner_reply" /\ last.outcome = "unresolved"
    /\ last.fid # NoId /\ last.fid < nextMsgId[last.bot]
    /\ last.to = NoId /\ ~last.sent

\* C6: a reply to a forwarded copy whose RoutingEntry an earlier reply consumed
\* delivers nothing and shows the owner a notice.
C6_UnresolvedReplyShowsNotice ==
    (/\ last.op = "owner_reply" /\ last.outcome = "unresolved"
     /\ last.fid # NoId /\ last.fid < nextMsgId[last.bot])
    => (~last.sent /\ last.notice # "none")

\* C7: a message of a blacklisted end-user, /start included, is not relayed and
\* changes no state: it leaves no pending challenge, no VerificationRecord, no
\* RoutingEntry and no TopicBinding behind.
C7_BlacklistedChangesNothing ==
    (last.op \in {"start", "client"} /\ <<last.bot, last.user>> \in blacklist)
    => last.outcome \notin {"challenge_issued", "verified_now", "retry",
                            "relayed_direct", "relayed_forum"}

\* C8: topic binding stability.  A call of relay_forum leaves at most one
\* TopicBinding per (identity, user) and touches no other user's binding; a user
\* bound to a live topic keeps the binding, no topic is created and the forward
\* goes into the bound topic; a user bound to a stale topic gets at most one new
\* topic, and when one is created the binding is overwritten with it and the
\* forward goes into the new topic.
C8_TopicBindingStable ==
    [][\A b \in Bots, u \in Users :
          (/\ last'.op = "client" /\ last'.bot = b /\ last'.user = u
           /\ b \in DOMAIN bots /\ bots[b].mode = "forum"
           /\ last'.outcome \in {"relayed_forum", "not_configured", "error"})
          => LET g == bots[b].forum_group_id
                 old == { r \in forum_topics : r[1] = b /\ r[2] = u }
                 new == { r \in forum_topics' : r[1] = b /\ r[2] = u }
                 stale == \E r \in old : <<g, r[3]>> \notin liveTopics
             IN  /\ Cardinality(new) <= 1
                 /\ old # {} => Cardinality(new) = 1
                 /\ forum_topics' \ new = forum_topics \ old
                 /\ last'.made <= 1
                 /\ (old # {} /\ ~stale)
                    => /\ new = old /\ last'.made = 0
                       /\ UNCHANGED << nextTopic, liveTopics >>
                       /\ last'.outcome = "relayed_forum" => <<b, u, last'.tid>> \in old
                 /\ (old # {} /\ stale)
                    => /\ last'.made = 0 => (new = old /\ last'.outcome = "error")
                       /\ last'.made = 1
                          => /\ new = { <<b, u, nextTopic[g]>> }
                             /\ new # old
                             /\ nextTopic'[g] = nextTopic[g] + 1
                             /\ liveTopics' = liveTopics \cup { <<g, nextTopic[g]>> }
                       /\ last'.outcome = "relayed_forum"
                          => (last'.made = 1 /\ last'.tid = nextTopic[g])
      ]_vars

\* C8 witness: the only bound user's topic was deleted, their next message made
\* the second topic of the group, was forwarded into it, and theirs is still the
\* only binding.
C8_Witness ==
    /\ last.op = "client" /\ last.outcome = "relayed_forum"
    /\ last.made = 1 /\ last.tid = 2
    /\ forum_topics = { <<last.bot, last.user, 2>> }
    /\ nextTopic[-1] = 3

\* C9: when the drop action has removed an identity, the store holds no bot row
\* for it and the owners table is as before; an identity without a bot row has
\* no RoutingEntry, TopicBinding, BlacklistEntry or VerificationRecord; and an
\* identity that has just been registered has none either.
C9_DropCascades ==
    [][\A b \in Bots :
          LET clean == /\ \A k \in DOMAIN direct_routes' : k[1] # b
                       /\ \A r \in forum_topics' : r[1] # b
                       /\ \A p \in blacklist' : p[1] # b
                       /\ \A p \in verified_users' : p[1] # b
          IN  /\ (last'.op = "mgr_drop" /\ last'.bot = b /\ last'.outcome = "dropped")
                 => (b \notin DOMAIN bots' /\ owners' = owners)
              /\ b \notin DOMAIN bots' => clean
              /\ (last'.op = "mgr_register" /\ last'.bot = b
                  /\ last'.outcome \in {"starting", "registered"})
                 => (b \in DOMAIN bots' /\ clean)
      ]_vars

\* C9 witness: an identity that had relayed one message in each mode was dropped;
\* the five tables hold nothing of it and its owner's row is still there.
C9_Witness ==
    /\ last.op = "mgr_drop" /\ last.outcome = "dropped"
    /\ nextMsgId[last.bot] = 2 /\ nextTopic[-1] = 2
    /\ bots = <<>> /\ direct_routes = <<>> /\ forum_topics = {}
    /\ blacklist = {} /\ verified_users = {}
    /\ owners = {9}

\* C10: an application receives updates only while its identity is in the running
\* set or its shutdown_sub_bot is still in progress; and a handler of an identity
\* starts only then.  So after shutdown_sub_bot has completed, no handler of the
\* identity starts and nothing listens for it until ensure_sub_bot puts it into
\* the running set again.
C10_NoHandlerAfterShutdown ==
    [][\A b \in Bots :
          /\ (b \in DOMAIN apps' /\ apps'[b].state \in {"polling", "draining"})
             => (b \in running_apps' \/ (mgr'.pc = "drop" /\ mgr'.bot = b))
          /\ (last'.op \in HandlerOps /\ last'.bot = b)
             => /\ b \in DOMAIN apps
                /\ b \in running_apps \/ (mgr.pc = "drop" /\ mgr.bot = b)
      ]_vars

\* C10 witness: an identity whose handlers had run (a challenge they cached is
\* still there) was shut down by the drop action: it is out of the running set
\* and no application is left for it.
C10_Witness ==
    /\ last.op = "mgr_drop" /\ last.outcome = "dropped"
    /\ last.bot \notin running_apps /\ last.bot \notin DOMAIN apps
    /\ pending_challenges # <<>>

\* C18: when an end-user with a cached challenge (gate on, no VerificationRecord,
\* not blacklisted) sends a message that is not the expected answer once
\* surrounding blanks are stripped (a message without text included), the same
\* challenge stays cached for (identity, user), no VerificationRecord is written,
\* the retry notice is sent and the message is not relayed.
C18_WrongAnswerKeepsChallenge ==
    [][\A b \in Bots, u \in Users :
          (/\ last'.op = "client" /\ last'.bot = b /\ last'.user = u
           /\ b \in DOMAIN bots /\ bots[b].captcha_enabled
           /\ <<b, u>> \notin blacklist
           /\ <<b, u>> \notin verified_users
           /\ <<b, u>> \in DOMAIN pending_challenges
           /\ last'.text # pending_challenges[<<b, u>>].answer
           /\ last'.text # <<" ">> \o pending_challenges[<<b, u>>].answer \o <<" ">>)
          => /\ last'.outcome = "retry" /\ last'.notice = "retry"
             /\ pending_challenges' = pending_challenges
             /\ verified_users' = verified_users
             /\ last'.fid = NoId /\ last'.tid = NoId /\ last'.made = 0
             /\ UNCHANGED << direct_routes, forum_topics, nextMsgId, nextTopic, liveTopics >>
      ]_vars

\* C18 witness: a challenged end-user sent a message without text; the retry
\* notice was sent and their challenge is still cached, no record written.
C18_Witness ==
    /\ last.op = "client" /\ last.outcome = "retry" /\ last.text = NoText
    /\ bots[last.bot].captcha_enabled
    /\ <<last.bot, last.user>> \in DOMAIN pending_challenges
    /\ <<last.bot, last.user>> \notin verified_users
    /\ direct_routes = <<>>

\* The owner's unverify command naming end-user u.
UnverifyText(u) == <<"/", "u", "v", " ">> \o (IF u = 1 THEN <<"1">> ELSE <<"2">>)

\* C19: the owner's unverify command for a verified (identity, user) deletes that
\* VerificationRecord and nothing else: the other records, the pending-challenge
\* cache, the blacklist and the routing state are unchanged.  When the next step
\* is a message or /start of that user, with the gate enabled and the user not
\* blacklisted, it is not relayed and a challenge is issued for it.
C19_UnverifyForcesChallenge ==
    [][\A b \in Bots, u \in Users :
          /\ (/\ last'.op = "owner_cmd" /\ last'.bot = b
              /\ last'.text = UnverifyText(u)
              /\ b \in DOMAIN bots
              /\ <<b, u>> \in verified_users)
             => /\ last'.outcome = "unverified" /\ last'.to = u
                /\ verified_users' = verified_users \ { <<b, u>> }
                /\ <<b, u>> \notin DOMAIN pending_challenges'
                /\ UNCHANGED << pending_challenges, blacklist, bots, direct_routes,
                                forum_topics, transport >>
          /\ (/\ last.op = "owner_cmd" /\ last.outcome = "unverified"
              /\ last.bot = b /\ last.to = u
              /\ last'.op \in {"client", "start"} /\ last'.bot = b /\ last'.user = u
              /\ b \in DOMAIN bots /\ bots[b].captcha_enabled
              /\ <<b, u>> \notin blacklist)
             => /\ last'.outcome = "challenge_issued" /\ last'.notice = "challenge"
                /\ <<b, u>> \in DOMAIN pending_challenges'
                /\ <<b, u>> \notin verified_users'
                /\ last'.fid = NoId /\ last'.tid = NoId
                /\ UNCHANGED << direct_routes, forum_topics, transport >>
      ]_vars

\* C19 witness: an end-user who was verified and relayed has just been unverified
\* by the owner; the gate is on, the user is not blacklisted, and no challenge is
\* cached for them.
C19_Witness ==
    /\ last.op = "owner_cmd" /\ last.outcome = "unverified"
    /\ last.text = UnverifyText(last.to)
    /\ bots[last.bot].captcha_enabled /\ Listening(last.bot)
    /\ <<last.bot, last.to>> \notin verified_users
    /\ <<last.bot, last.to>> \notin blacklist
    /\ <<last.bot, last.to>> \notin DOMAIN pending_challenges
    /\ \E k \in DOMAIN direct_routes : k[1] = last.bot /\ direct_routes[k] = last.to

\* C20: while the gate of an identity is disabled, a message of a not blacklisted
\* end-user is relayed by the strategy of the routing mode, and neither it nor
\* /start writes a VerificationRecord or caches a challenge.  With the gate
\* enabled, a message of an end-user without a record is not relayed: a
\* challenge is issued when none is cached for them, and the message is taken as
\* the answer to the cached one otherwise.
C20_DisabledGateLeavesNoTrace ==
    [][\A b \in Bots, u \in Users :
          /\ (/\ last'.op = "client" /\ last'.bot = b /\ last'.user = u
              /\ b \in DOMAIN bots /\ ~bots[b].captcha_enabled
              /\ <<b, u>> \notin blacklist)
             => /\ last'.outcome =
                       (IF bots[b].mode = "direct" THEN "relayed_direct" ELSE "relayed_forum")
                /\ bots[b].mode = "direct" => /\ <<b, last'.fid>> \in DOMAIN direct_routes'
                                              /\ direct_routes'[<<b, last'.fid>>] = u
                /\ bots[b].mode = "forum" => <<b, u, last'.tid>> \in forum_topics'
                /\ UNCHANGED << verified_users, pending_challenges >>
          /\ (/\ last'.op = "start" /\ last'.bot = b /\ last'.user = u
              /\ b \in DOMAIN bots /\ ~bots[b].captcha_enabled)
             => /\ last'.outcome = "welcome"
                /\ UNCHANGED << verified_users, pending_challenges >>
          /\ (/\ last'.op = "client" /\ last'.bot = b /\ last'.user = u
              /\ b \in DOMAIN bots /\ bots[b].captcha_enabled
              /\ <<b, u>> \notin blacklist
              /\ <<b, u>> \notin verified_users)
             => /\ last'.outcome =
                       (IF <<b, u>> \notin DOMAIN pending_challenges THEN "challenge_issued"
                        ELSE IF last'.text \in
                                  { pending_challenges[<<b, u>>].answer,
                                    <<" ">> \o pending_challenges[<<b, u>>].answer \o <<" ">> }
                        THEN "verified_now" ELSE "retry")
                /\ last'.fid = NoId /\ last'.tid = NoId
                /\ UNCHANGED << direct_routes, forum_topics, transport >>
      ]_vars

\* C20 witness: an end-user whose message was forwarded to the owner has no
\* VerificationRecord, and their message sent with the gate enabled was
\* answered with a challenge.
C20_Witness ==
    /\ last.op = "client" /\ last.outcome = "challenge_issued"
    /\ bots[last.bot].captcha_enabled
    /\ verified_users = {}
    /\ \E k \in DOMAIN direct_routes : k[1] = last.bot /\ direct_routes[k] = last.user

\* C16: add_blacklist for a pair already blacklisted returns False without
\* raising, and verify_user for a pair already verified returns without raising;
\* remove_blacklist and unverify_user of an absent pair return False.  None of
\* the four changes the blacklist or the verified set in that case, and the
\* owner's block, unblock and unverify commands answer it with the
\* already-blocked, not-found and not-verified notices.
C16_StoreCallsIdempotent ==
    [][\A b \in Bots, u \in Users :
          /\ (last'.bot = b /\ last'.to = u /\ last'.op = "add_blacklist"
              /\ <<b, u>> \in blacklist)
             => last'.outcome = "false" /\ UNCHANGED << blacklist, verified_users >>
          /\ (last'.bot = b /\ last'.to = u /\ last'.op = "verify_user"
              /\ <<b, u>> \in verified_users)
             => last'.outcome = "returned" /\ UNCHANGED << blacklist, verified_users >>
          /\ (last'.bot = b /\ last'.to = u /\ last'.op = "remove_blacklist"
              /\ <<b, u>> \notin blacklist)
             => last'.outcome = "false" /\ UNCHANGED << blacklist, verified_users >>
          /\ (last'.bot = b /\ last'.to = u /\ last'.op = "unverify_user"
              /\ <<b, u>> \notin verified_users)
             => last'.outcome = "false" /\ UNCHANGED << blacklist, verified_users >>
          /\ (last'.bot = b /\ last'.op = "owner_cmd" /\ b \in DOMAIN bots
              /\ last'.text = CommandText(<<"b">>, u) /\ <<b, u>> \in blacklist)
             => /\ last'.outcome = "already_blocked" /\ last'.notice = "already_blocked"
                /\ UNCHANGED << blacklist, verified_users >>
          /\ (last'.bot = b /\ last'.op = "owner_cmd" /\ b \in DOMAIN bots
              /\ last'.text = CommandText(<<"u", "b">>, u) /\ <<b, u>> \notin blacklist)
             => /\ last'.outcome = "not_blocked" /\ last'.notice = "not_found"
                /\ UNCHANGED << blacklist, verified_users >>
          /\ (last'.bot = b /\ last'.op = "owner_cmd" /\ b \in DOMAIN bots
              /\ last'.text = CommandText(<<"u", "v">>, u) /\ <<b, u>> \notin verified_users)
             => /\ last'.outcome = "not_verified" /\ last'.notice = "not_verified"
                /\ UNCHANGED << blacklist, verified_users >>
      ]_vars

\* C16 witness: add_blacklist returned False for a pair that is blacklisted, with
\* the other end-user verified and not blacklisted.
C16_Witness ==
    /\ last.op = "add_blacklist" /\ last.outcome = "false"
    /\ blacklist = { <<last.bot, last.to>> }
    /\ \E u \in Users \ {last.to} : verified_users = { <<last.bot, u>> }

\* C17: a block, unblock, revoke-verification or show-user-card command that
\* resolves no target end-user (no numeric argument, no resolvable reply target,
\* no enclosing bound topic) is answered with the need-explicit-target notice.
C17_NoTargetShowsNotice ==
    (/\ last.op = "owner_cmd"
     /\ \E name \in { <<"/", "b">>, <<"/", "u", "b">>, <<"/", "u", "v">>, <<"/", "i", "d">> } :
           StartsWith(last.text, name)
     /\ ~StartsWith(last.text, <<"/", "b", "l">>)
     /\ last.outcome # "config_invalid"
     /\ last.to = NoId)
    => last.notice = "need_target"

\* C12: when main() has finished spin_existing_bots and started the manager
\* application, every identity in the store is in the running set with a started
\* (polling) session bound to the owner of its row, and the manager handles
\* updates.
C12_StartupReconciles ==
    (last.op = "boot" /\ last.outcome = "manager_started")
    => /\ mgr.pc = "idle"
       /\ \A b \in DOMAIN bots :
             /\ b \in running_apps
             /\ b \in DOMAIN apps
             /\ apps[b].state = "polling"
             /\ apps[b].owner_id = bots[b].owner_id

\* C12 witness: startup finished over a store with two identities of two owners.
C12_Witness ==
    /\ last.op = "boot" /\ last.outcome = "manager_started"
    /\ DOMAIN bots = AllBots
    /\ running_apps = AllBots
    /\ \E x, y \in AllBots : bots[x].owner_id # bots[y].owner_id

\* C13: when starting the session of an identity written in the store fails,
\* during registration or during startup, the process keeps running (the manager
\* session and the other identities' sessions are started or stay started) and
\* the owner is told about the failure.
C13_FailedStartIsContained ==
    (last.op = "ensure" /\ last.outcome \in {"error", "crashed"})
    => /\ mgr.pc # "dead"
       /\ last.notice # "none"

\* C14: a credential the transport rejects is reported to the submitter and
\* writes nothing: no bot row, no owner row, no session.
C14_InvalidTokenChangesNothing ==
    [][(last'.op = "mgr_register" /\ last'.text = <<"x">>)
          => /\ last'.outcome = "invalid_token" /\ last'.notice = "invalid_token"
             /\ UNCHANGED << store, running_apps, apps, mgr >>
      ]_vars

\* C14 witness: an owner who has no owner row submitted a rejected credential
\* while another owner's identity is registered and running; there is still one
\* bot row and one owner row.
C14_Witness ==
    /\ last.op = "mgr_register" /\ last.outcome = "invalid_token"
    /\ last.user \notin owners
    /\ \E b \in AllBots : DOMAIN bots = {b} /\ running_apps = {b} /\ owners = {bots[b].owner_id}

\* C15: no two bot rows carry the same token (and the rows are keyed by
\* username); add-identity with a credential whose username is already managed
\* is answered with the duplicate notice and changes neither the store nor the
\* running set.
C15_OneRowPerIdentity ==
    [][/\ \A x, y \in DOMAIN bots' : x # y => bots'[x].token # bots'[y].token
       /\ \A b \in AllBots :
             (last'.op = "mgr_register" /\ last'.bot = b /\ b \in DOMAIN bots)
             => /\ last'.outcome = "duplicate" /\ last'.notice = "duplicate"
                /\ UNCHANGED << store, running_apps, apps, mgr >>
      ]_vars

\* C15 witness: an owner submitted the credential of an identity that another
\* owner manages; the row still names the first owner, and the submitter has no
\* owner row.
C15_Witness ==
    /\ last.op = "mgr_register" /\ last.outcome = "duplicate"
    /\ last.bot \in DOMAIN bots
    /\ bots[last.bot].owner_id # last.user
    /\ last.user \notin owners

\* C11: ensure_sub_bot for an identity in the running set changes neither the
\* running set nor any application and starts nothing; shutdown_sub_bot for an
\* identity absent from the running set changes nothing; and after any sequence
\* of such calls every application that exists is the one recorded in the
\* running set for its identity, or the one shutdown_sub_bot is stopping.
C11_StartStopIdempotent ==
    [][/\ \A b \in AllBots :
             /\ (last'.op = "call_ensure" /\ last'.bot = b /\ b \in running_apps)
                => /\ last'.outcome = "already"
                   /\ UNCHANGED << running_apps, apps, mgr >>
             /\ (last'.op = "call_shutdown" /\ last'.bot = b /\ b \notin running_apps)
                => /\ last'.outcome = "absent"
                   /\ UNCHANGED << running_apps, apps, mgr >>
       /\ \A b \in DOMAIN apps' :
             b \in running_apps' \/ (mgr'.pc = "stop" /\ mgr'.bot = b)
      ]_vars

\* C11 witness: ensure_sub_bot was called for a polling identity on behalf of
\* another owner; the session is still the first one, bound to the first owner.
C11_Witness ==
    /\ last.op = "call_ensure" /\ last.outcome = "already"
    /\ last.bot \in running_apps
    /\ apps[last.bot].state = "polling"
    /\ apps[last.bot].owner_id # last.user
    /\ mgr.pc = "idle"

\* C21: a restart of the process empties the pending-challenge cache and keeps
\* every row of the store, and nothing caches a challenge or writes a row while
\* main() starts the sessions again.  The first message after the identity's
\* session is started again gets a newly issued challenge when its sender has
\* no VerificationRecord, the answer to a challenge of the old process
\* included (it does not verify them), and is relayed when its sender is
\* verified.
C21_RestartDropsChallenges ==
    [][/\ last'.op = "restart"
          => pending_challenges' = <<>> /\ UNCHANGED << store, transport >>
       /\ (last'.op \in {"boot", "ensure"} /\ mgr.pc \in {"boot", "ensure_boot"})
          => UNCHANGED << pending_challenges, store, transport >>
       /\ \A b \in Bots, u \in Users :
             (/\ last.op = "ensure" /\ last.outcome = "started" /\ last.bot = b
              /\ mgr.pc = "boot"
              /\ last'.op = "client" /\ last'.bot = b /\ last'.user = u
              /\ b \in DOMAIN bots /\ bots[b].captcha_enabled
              /\ <<b, u>> \notin blacklist)
             => IF <<b, u>> \in verified_users
                THEN /\ last'.outcome \in {"relayed_direct", "relayed_forum"}
                     /\ UNCHANGED << pending_challenges, verified_users >>
                ELSE /\ last'.outcome = "challenge_issued"
                     /\ <<b, u>> \in DOMAIN pending_challenges'
                     /\ UNCHANGED << verified_users, direct_routes, forum_topics, transport >>
      ]_vars

\* C21 witness: after a restart that discarded a cached challenge, with one
\* end-user verified, the other end-user sent the text of an answer and got a
\* newly issued challenge; they are not verified.
C21_Witness ==
    /\ last.op = "client" /\ last.outcome = "challenge_issued"
    /\ last.text \in Answers
    /\ mgr.pc = "boot"
    /\ <<last.bot, last.user>> \notin verified_users
    /\ \E u \in Users \ {last.user} : <<last.bot, u>> \in verified_users

\* C22: relay_forum for an end-user who has a TopicBinding.  When the bound topic
\* is gone (the forward meets a stale reference), one new topic is created, the
\* binding is overwritten with it and the forward is tried once more: three
\* transport calls, never more, and a failure of the retry ends the handler with
\* the error and the new binding.  When the bound topic is live and the forward
\* fails, or any call fails before the recovery, no topic is created, the
\* binding stays, there is no retry and the handler ends with the error.
C22_StaleTopicRecoveredOnce ==
    [][\A b \in Bots, u \in Users :
          (/\ last'.op = "client" /\ last'.bot = b /\ last'.user = u
           /\ b \in DOMAIN bots /\ bots[b].mode = "forum" /\ ~bots[b].captcha_enabled
           /\ bots[b].forum_group_id \in Groups
           /\ <<b, u>> \notin blacklist
           /\ get_topic(forum_topics, b, u) # NoId)
          => LET g == bots[b].forum_group_id
                 t0 == get_topic(forum_topics, b, u)
                 kept == UNCHANGED << forum_topics, nextTopic, liveTopics >>
                 rebound == /\ last'.made = 1 /\ last'.calls = 3
                            /\ nextTopic'[g] = nextTopic[g] + 1
                            /\ topic_rows(forum_topics', b, u) = { <<b, u, nextTopic[g]>> }
                            /\ forum_topics' \ topic_rows(forum_topics', b, u)
                                  = forum_topics \ topic_rows(forum_topics, b, u)
                            /\ <<g, nextTopic[g]>> \in liveTopics'
             IN  /\ last'.outcome \in {"relayed_forum", "error"}
                 /\ last'.made <= 1 /\ last'.calls <= 3
                 /\ <<g, t0>> \in liveTopics
                    => /\ last'.made = 0 /\ last'.calls = 1 /\ kept
                       /\ last'.outcome = "relayed_forum" => last'.tid = t0
                 /\ <<g, t0>> \notin liveTopics
                    => /\ last'.outcome = "relayed_forum"
                          => rebound /\ last'.tid = nextTopic[g]
                       /\ last'.outcome = "error"
                          => \/ last'.made = 0 /\ last'.calls \in 1..2 /\ kept
                             \/ rebound
      ]_vars

\* C22 witness: a message whose sender's bound topic had been deleted was
\* forwarded into a newly created topic after three transport calls, and the
\* sender's one binding names the new topic.
C22_Witness ==
    /\ last.op = "client" /\ last.outcome = "relayed_forum"
    /\ last.made = 1 /\ last.calls = 3 /\ last.tid = 2
    /\ topic_rows(forum_topics, last.bot, last.user) = { <<last.bot, last.user, 2>> }
    /\ <<bots[last.bot].forum_group_id, 1>> \notin liveTopics

\* C23: in topic mode, a message that is no command of the owner, posted in the
\* bound group inside a topic bound to one end-user, is copied to that end-user
\* (delivered unless the transport refuses the copy) and changes nothing: the
\* TopicBindings, the RoutingEntries and every other row and cache entry stay
\* as they were, so the topic keeps resolving to the same user.
C23_TopicMessageKeepsBinding ==
    [][\A b \in Bots, u \in Users :
          (/\ last'.op = "topic_msg" /\ last'.bot = b
           /\ b \in DOMAIN bots /\ bots[b].mode = "forum"
           /\ bots[b].forum_group_id \in Groups
           /\ users_by_topic(b, last'.tid) = {u})
          => /\ last'.to = u
             /\ last'.outcome = (IF last'.sent THEN "copied" ELSE "error")
             /\ UNCHANGED << store, pending_challenges, transport >>
      ]_vars

\* C23 witness: with two end-users bound to two topics, a group member other
\* than the owner posted in the second topic and the copy went to its user.
C23_Witness ==
    /\ last.op = "topic_msg" /\ last.outcome = "copied" /\ last.sent
    /\ last.user # bots[last.bot].owner_id
    /\ last.tid = 2
    /\ <<last.bot, last.to, 2>> \in forum_topics
    /\ \E u \in Users \ {last.to} : <<last.bot, u, 1>> \in forum_topics

\* C24: in direct mode, a command of the owner that carries no argument and is
\* sent as a reply to a forwarded copy takes as its target the user of the
\* copy's RoutingEntry, leaves every RoutingEntry in place and is not copied to
\* any end-user; when the next step is the owner's reply to the same copy, the
\* reply still resolves, is addressed to that user and consumes the entry.
C24_CommandKeepsRoutingEntry ==
    [][\A k \in DOMAIN direct_routes :
          /\ (/\ last'.op = "owner_cmd" /\ last'.bot = k[1] /\ last'.fid = k[2]
              /\ k[1] \in DOMAIN bots /\ bots[k[1]].mode = "direct"
              /\ last'.text \in { <<"/", "b">>, <<"/", "u", "b">>, <<"/", "i", "d">> })
             => /\ last'.to = direct_routes[k]
                /\ last'.outcome \in {"blocked", "already_blocked", "unblocked",
                                      "not_blocked", "card"}
                /\ ~last'.sent
                /\ UNCHANGED << direct_routes, transport >>
          /\ (/\ last.op = "owner_cmd" /\ last.bot = k[1] /\ last.fid = k[2]
              /\ last.to = direct_routes[k]
              /\ last'.op = "owner_reply" /\ last'.bot = k[1] /\ last'.fid = k[2]
              /\ k[1] \in DOMAIN bots)
             => /\ last'.to = direct_routes[k]
                /\ last'.outcome = (IF last'.sent THEN "replied" ELSE "error")
                /\ k \notin DOMAIN direct_routes'
      ]_vars

\* C24 witness: the owner replied to the copy of user 2's message right after
\* blocking its sender by a command sent as a reply to the same copy; the reply
\* was delivered to user 2.
C24_Witness ==
    /\ last.op = "owner_reply" /\ last.outcome = "replied" /\ last.sent
    /\ last.fid = 2 /\ last.to = 2
    /\ <<last.bot, 2>> \in blacklist
    /\ <<last.bot, 2>> \notin DOMAIN direct_routes

\* C25: in every reachable state an identity whose routing mode is topic has a
\* bound group that relay_forum can use (a group id that is not empty).
C25_TopicModeHasBinding ==
    \A b \in DOMAIN bots : bots[b].mode = "forum" => Truthy(bots[b].forum_group_id)

\* C28: when the drop action has removed an identity, the pending-challenge cache
\* holds no challenge keyed by that identity.
C28_DropClearsChallenges ==
    (last.op = "mgr_drop" /\ last.outcome = "dropped")
    => \A k \in DOMAIN pending_challenges : k[1] # last.bot

\* C29: a group binding is written to an identity's row only by the owner who
\* owns the identity when the write happens.
C29_OnlyOwnerConfigures ==
    (last.op = "mgr_bind" /\ last.outcome = "bound")
    => (last.bot \in DOMAIN bots /\ bots[last.bot].owner_id = last.user)

C30_TopicIdsDistinct ==
    \A x, y \in forum_topics : (x[1] = y[1] /\ x[3] = y[3]) => x[2] = y[2]

\* The per-identity rows and cache entries of identity b.
Slice(b) ==
    [routes |-> [k \in { x \in DOMAIN direct_routes : x[1] = b } |-> direct_routes[k]],
     topics |-> { r \in forum_topics : r[1] = b },
     blocked |-> { p \in blacklist : p[1] = b },
     verified |-> { p \in verified_users : p[1] = b },
     pending |-> [k \in { x \in DOMAIN pending_challenges : x[1] = b }
                    |-> pending_challenges[k]],
     row |-> get_bot(b)]

\* What the handler answers to an end-user's message, from identity b's own rows
\* and cache entries alone.
SliceOutcome(b, u, text) ==
    LET sl == Slice(b)
    IN  IF <<b, u>> \in sl.blocked THEN "blacklisted"
        ELSE IF sl.row.captcha_enabled /\ <<b, u>> \notin sl.verified
        THEN IF <<b, u>> \notin DOMAIN sl.pending THEN "challenge_issued"
             ELSE IF text = sl.pending[<<b, u>>].answer THEN "verified_now"
             ELSE "retry"
        ELSE IF sl.row.mode = "direct" THEN "relayed_direct" ELSE "relayed_forum"

\* C26: a handler of identity a (an end-user's message or /start, an owner
\* reply, an admin command, a topic message) leaves the RoutingEntries,
\* TopicBindings, BlacklistEntries, VerificationRecords, pending challenges and
\* the row of every other identity as they were; and what an end-user of an
\* identity is answered is determined by that identity's own rows and cache
\* entries, whatever the state of the other identity.
C26_IdentitiesArePartitioned ==
    [][\A a \in AllBots :
          /\ (last'.op \in HandlerOps /\ last'.bot = a)
             => \A b \in AllBots \ {a} : Slice(b)' = Slice(b)
          /\ (last'.op = "client" /\ last'.bot = a /\ a \in DOMAIN bots)
             => last'.outcome = SliceOutcome(a, last'.user, last'.text)
      ]_vars

\* C26 witness: the same end-user is verified and was relayed at one identity
\* and has just been challenged at the other, with the same owner.
C26_Witness ==
    /\ last.op = "client" /\ last.bot = "b2" /\ last.outcome = "challenge_issued"
    /\ <<"b1", last.user>> \in verified_users
    /\ <<"b2", last.user>> \notin verified_users
    /\ DOMAIN pending_challenges = { <<"b2", last.user>> }
    /\ DOMAIN direct_routes = { <<"b1", 1>> }
    /\ bots["b1"].owner_id = bots["b2"].owner_id

\* C31: no (identity, user) pair has both a VerificationRecord and a pending
\* challenge.  A VerificationRecord is written only by the end-user's message
\* that answers the pair's cached challenge, and that step removes the challenge;
\* a challenge is cached or replaced only by a message or /start of a pair that
\* has no record before or after the step.
VerifiedAndPending == verified_users \cap DOMAIN pending_challenges

C31_VerifiedExcludesPending ==
    [][/\ VerifiedAndPending = {}
       /\ VerifiedAndPending' = {}
       /\ \A p \in verified_users' \ verified_users :
             /\ last'.op = "client" /\ last'.outcome = "verified_now"
             /\ p = <<last'.bot, last'.user>>
             /\ p \in DOMAIN pending_challenges
             /\ p \notin DOMAIN pending_challenges'
       /\ \A p \in DOMAIN pending_challenges' :
             (p \notin DOMAIN pending_challenges
                \/ pending_challenges'[p] # pending_challenges[p])
             => /\ last'.op \in {"client", "start"}
                /\ p = <<last'.bot, last'.user>>
                /\ p \notin verified_users
                /\ p \notin verified_users'
      ]_vars

\* C31 witness: one end-user has just answered their challenge and holds a record
\* and no challenge, while the other holds a challenge and no record.
C31_Witness ==
    /\ last.op = "client" /\ last.outcome = "verified_now"
    /\ <<last.bot, last.user>> \in verified_users
    /\ <<last.bot, last.user>> \notin DOMAIN pending_challenges
    /\ \E u \in Users \ {last.user} :
          /\ <<last.bot, u>> \in DOMAIN pending_challenges
          /\ <<last.bot, u>> \notin verified_users

\* C32: an owner reply consumes a RoutingEntry only when the owner's message has
\* been delivered: after a reply whose copy to the end-user failed with a
\* transport error, the RoutingEntry of the replied-to copy is still present.
C32_FailedReplyKeepsEntry ==
    (last.op = "owner_reply" /\ last.outcome = "error" /\ ~last.sent)
       => <<last.bot, last.fid>> \in DOMAIN direct_routes

\* C33: an identity is in the running set only while its listener is attached:
\* when ensure_sub_bot fails while initializing or starting the listener, the
\* identity is not left in the running set, and a later ensure_sub_bot for it
\* attempts a start instead of returning at once.
C33_FailedStartLeavesRunningSet ==
    /\ (last.op = "ensure" /\ last.outcome = "error") => last.bot \notin running_apps
    /\ (last.op = "call_ensure" /\ last.outcome = "already") => Listening(last.bot)

=============================================================================
